---- MODULE Spec2Model ----
(***************************************************************************)
(* Model of the search pipeline of the AdvancedSearch component:           *)
(*   store/searchSlice.js  (src/unnamed/part_003)  executeSearch, reducers *)
(*   engine/scorer.js                               ranking, deduplication *)
(*   api/searchApi.js      (src/unnamed/part_005)  the module APIs         *)
(*                                                                         *)
(* Conventions                                                             *)
(*   - a JS string is a sequence of one-character strings; Undef is the    *)
(*     JS value undefined in a text field;                                 *)
(*   - an identifier is a record [t, v]: t is the JS type of the value     *)
(*     ("str", "num" or "undef") and v its digits/characters, so that      *)
(*     String(x) is a real conversion;                                     *)
(*   - scores are integers: match scores in tenths, module weights in      *)
(*     hundredths, final scores in thousandths (toFixed(6) is exact on     *)
(*     them);                                                              *)
(*   - a result item is [raw, title, _module, _source, id, _score,         *)
(*     _matchType, _matchScore]: raw names the record the item was spread  *)
(*     from (its untouched fields are read from Raw), the other fields are *)
(*     the ones the pipeline writes.                                       *)
(***************************************************************************)
EXTENDS Integers, Sequences, FiniteSets, TLC

\* ------------------------------------------------------------------------
\* Bounds of the model
\* ------------------------------------------------------------------------
MaxInv == 3
MaxTicks == 2
MaxFailures == 2

\* ------------------------------------------------------------------------
\* JS strings
\* ------------------------------------------------------------------------
Undef == <<"undefined">>

Truthy(s) == s # Undef /\ s # <<>>

LowerChar(c) ==
  CASE c = "A" -> "a"
    [] c = "B" -> "b"
    [] c = "E" -> "e"
    [] c = "F" -> "f"
    [] c = "I" -> "i"
    [] c = "L" -> "l"
    [] c = "M" -> "m"
    [] c = "O" -> "o"
    [] c = "R" -> "r"
    [] OTHER -> c

ToLowerCase(s) == [i \in 1..Len(s) |-> LowerChar(s[i])]

StartsWith(s, p) == Len(p) <= Len(s) /\ SubSeq(s, 1, Len(p)) = p

Includes(s, p) == \E i \in 0..(Len(s) - Len(p)) : SubSeq(s, i + 1, i + Len(p)) = p

\* The characters String.prototype.trim and the regex class \s remove
WhiteSpace == {" ", "\t", "\n"}

RECURSIVE TrimStart(_)
TrimStart(s) == IF s # <<>> /\ Head(s) \in WhiteSpace THEN TrimStart(Tail(s)) ELSE s

RECURSIVE TrimEnd(_)
TrimEnd(s) ==
  IF s # <<>> /\ s[Len(s)] \in WhiteSpace THEN TrimEnd(SubSeq(s, 1, Len(s) - 1)) ELSE s

Trim(s) == TrimEnd(TrimStart(s))

\* c.title.replace(/^[@#]/, '')
StripMarker(s) == IF s # <<>> /\ Head(s) \in {"@", "#"} THEN Tail(s) ELSE s

\* ------------------------------------------------------------------------
\* Identifiers
\* ------------------------------------------------------------------------
StrId(v) == [t |-> "str", v |-> v]
NumId(v) == [t |-> "num", v |-> v]
UndefId == [t |-> "undef", v |-> <<>>]

\* String(x)
String(x) ==
  IF x.t = "undef" THEN <<"u", "n", "d", "e", "f", "i", "n", "e", "d">> ELSE x.v

IdTruthy(x) == x.t # "undef" /\ x.v # <<>> /\ ~(x.t = "num" /\ x.v = <<"0">>)

\* ------------------------------------------------------------------------
\* Generic sequence helpers
\* ------------------------------------------------------------------------
Range(s) == {s[i] : i \in 1..Len(s)}

RECURSIVE Flat(_)
Flat(ss) == IF ss = <<>> THEN <<>> ELSE Head(ss) \o Flat(Tail(ss))

\* ------------------------------------------------------------------------
\* The data the program runs on: the participant summaries and the records
\* of the local dataset and of the remote modules.  A summary is
\* [form, json, text, parts]: form is the JS type of recipantssummary,
\* json says what JSON.parse makes of a string form ("array", "object" or
\* "malformed"), text is the string itself and parts the decoded list.
\* ------------------------------------------------------------------------
ME == StrId(<<"9">>)

Summaries ==
  [ none |-> [form |-> "undefined", json |-> "", text |-> Undef, parts |-> <<>>],
    s1   |-> [form |-> "string", json |-> "array",
              text |-> <<"[", "{", "\"", "z", "u", "i", "d", "\"", ":", "\"", "1", "\"",
                         ",", "\"", "d", "n", "a", "m", "e", "\"", ":", "\"", "A", "l",
                         "i", "c", "e", "\"", "}", ",", "{", "\"", "z", "u", "i", "d",
                         "\"", ":", "\"", "9", "\"", ",", "\"", "d", "n", "a", "m", "e",
                         "\"", ":", "\"", "M", "e", "\"", "}", "]">>,
              parts |-> << [zuid |-> StrId(<<"1">>), dname |-> <<"A", "l", "i", "c", "e">>],
                           [zuid |-> StrId(<<"9">>), dname |-> <<"M", "e">>] >>],
    s4   |-> [form |-> "array", json |-> "", text |-> Undef,
              parts |-> << [zuid |-> StrId(<<"7">>), dname |-> <<"A", "l">>],
                           [zuid |-> StrId(<<"9">>), dname |-> <<"M", "e">>] >>],
    \* the conversation of Alice (1) and Bob (2), as a JSON string
    s2   |-> [form |-> "string", json |-> "array",
              text |-> <<"[", "{", "\"", "z", "u", "i", "d", "\"", ":", "\"", "1",
                         "\"", ",", "\"", "d", "n", "a", "m", "e", "\"", ":", "\"",
                         "A", "l", "i", "c", "e", "\"", "}", ",", "{", "\"", "z", "u",
                         "i", "d", "\"", ":", "\"", "2", "\"", ",", "\"", "d", "n",
                         "a", "m", "e", "\"", ":", "\"", "B", "o", "b", "\"", "}",
                         "]">>,
              parts |-> << [zuid |-> StrId(<<"1">>), dname |-> <<"A", "l", "i", "c", "e">>],
                           [zuid |-> StrId(<<"2">>), dname |-> <<"B", "o", "b">>] >>],
    \* decoded lists: empty, one participant, numeric ids, a participant
    \* without a zuid before one with a zuid
    s0   |-> [form |-> "array", json |-> "", text |-> Undef, parts |-> <<>>],
    s5   |-> [form |-> "array", json |-> "", text |-> Undef,
              parts |-> << [zuid |-> StrId(<<"5">>), dname |-> <<"E", "v", "e">>] >>],
    s3   |-> [form |-> "array", json |-> "", text |-> Undef,
              parts |-> << [zuid |-> NumId(<<"9">>), dname |-> <<"M", "e">>],
                           [zuid |-> NumId(<<"1">>), dname |-> <<"A", "l", "i", "c", "e">>] >>],
    s6   |-> [form |-> "array", json |-> "", text |-> Undef,
              parts |-> << [zuid |-> UndefId, dname |-> <<"B", "o", "b">>],
                           [zuid |-> StrId(<<"1">>), dname |-> <<"A", "l", "i", "c", "e">>] >>],
    \* a string that JSON.parse rejects, a string that decodes to an object,
    \* and an object that is not a list
    s7   |-> [form |-> "string", json |-> "malformed",
              text |-> <<"[", "{", "\"", "z", "u", "i", "d", "\"", ":">>,
              parts |-> <<>>],
    s8   |-> [form |-> "string", json |-> "object",
              text |-> <<"{", "\"", "z", "u", "i", "d", "\"", ":", "\"", "1", "\"",
                         "}">>,
              parts |-> <<>>],
    s9   |-> [form |-> "object", json |-> "", text |-> Undef, parts |-> <<>>] ]

NoRaw ==
  [ chatid |-> UndefId, chat_type |-> UndefId, title |-> Undef, summary |-> "none",
    zuid |-> UndefId, full_name |-> Undef, email |-> Undef, name |-> Undef,
    msguid |-> UndefId, message |-> Undef, _module |-> "", _source |-> "", score |-> 0 ]

Records ==
  [ \* clientData.chats
    c1  |-> [NoRaw EXCEPT !.chatid = StrId(<<"c", "1">>), !.chat_type = NumId(<<"1">>),
                          !.title = <<"A", "l", "i", "c", "e">>, !.summary = "s1"],
    c2  |-> [NoRaw EXCEPT !.chatid = StrId(<<"c", "2">>), !.chat_type = NumId(<<"8">>),
                          !.title = <<"#", "a", "l", "p", "h", "a">>],
    \* clientData.users
    u1  |-> [NoRaw EXCEPT !.zuid = StrId(<<"1">>), !.full_name = <<"A", "l", "i", "c", "e">>,
                          !.email = <<"a", "l", "i", "c", "e", "@", "x">>],
    u2  |-> [NoRaw EXCEPT !.zuid = StrId(<<"2">>), !.full_name = <<"A", "l", "i", "n", "a">>,
                          !.email = <<"a", "l", "i", "n", "a", "@", "x">>],
    \* records of the users API
    su1 |-> [NoRaw EXCEPT !.zuid = NumId(<<"1">>), !.full_name = <<"A", "l", "i", "c", "e">>,
                          !._module = "users", !._source = "server"],
    su3 |-> [NoRaw EXCEPT !.zuid = StrId(<<"3">>), !.full_name = <<"a", "l", "i", "n", "a">>,
                          !._module = "users", !._source = "server"],
    su4 |-> [NoRaw EXCEPT !.zuid = StrId(<<"4">>), !.full_name = <<"A", "l", "i">>,
                          !.email = <<"a", "l", "i", "@", "x">>,
                          !._module = "users", !._source = "server"],
    su5 |-> [NoRaw EXCEPT !.zuid = StrId(<<"5">>), !.full_name = <<"A", "l", "i">>,
                          !._module = "users", !._source = "server"],
    \* records of the channels API
    sc2 |-> [NoRaw EXCEPT !.chatid = StrId(<<"c", "2">>), !.chat_type = NumId(<<"8">>),
                          !.title = <<"a", "l", "p", "h", "a">>,
                          !._module = "channels", !._source = "server"],
    sc3 |-> [NoRaw EXCEPT !.chatid = StrId(<<"c", "3">>), !.chat_type = NumId(<<"8">>),
                          !.title = <<"a", "l", "i", "x">>,
                          !._module = "channels", !._source = "server"],
    \* records of the messages API (sm2 carries no msguid)
    sm1 |-> [NoRaw EXCEPT !.msguid = StrId(<<"m", "1">>),
                          !.message = <<"h", "i", " ", "a", "l", "i">>,
                          !._module = "messages", !._source = "server"],
    sm2 |-> [NoRaw EXCEPT !.message = <<"a", "l", "i", "x">>,
                          !._module = "messages", !._source = "server"],
    \* records of the global search API
    g1  |-> [NoRaw EXCEPT !.chatid = StrId(<<"c", "1">>), !.chat_type = NumId(<<"1">>),
                          !.title = <<"A", "l", "i", "c", "e">>, !.summary = "s1",
                          !._module = "chats", !._source = "server"],
    g3  |-> [NoRaw EXCEPT !.chatid = StrId(<<"c", "3">>), !.chat_type = NumId(<<"8">>),
                          !.title = <<"a", "l", "i", "x">>,
                          !._module = "chats", !._source = "server"],
    g4  |-> [NoRaw EXCEPT !.chatid = StrId(<<"c", "4">>), !.chat_type = NumId(<<"1">>),
                          !.title = <<"A", "l">>, !.summary = "s4",
                          !._module = "chats", !._source = "server"],
    \* a conversation that carries a name and no title
    g5  |-> [NoRaw EXCEPT !.chatid = StrId(<<"c", "5">>), !.chat_type = NumId(<<"8">>),
                          !.name = <<"a", "l", "e", "x">>,
                          !._module = "chats", !._source = "server"],
    \* one-to-one chats whose participant data does not decode to a list
    c7  |-> [NoRaw EXCEPT !.chatid = StrId(<<"c", "7">>), !.chat_type = NumId(<<"1">>),
                          !.title = <<"A", "l", "i", "n", "a">>, !.summary = "s7"],
    c8  |-> [NoRaw EXCEPT !.chatid = StrId(<<"c", "8">>), !.chat_type = StrId(<<"1">>),
                          !.title = <<"A", "l", "i", "c", "e">>, !.summary = "s8"],
    c9  |-> [NoRaw EXCEPT !.chatid = StrId(<<"c", "9">>), !.chat_type = NumId(<<"1">>),
                          !.title = <<"@", "A", "l", "i", "c", "e">>, !.summary = "s9"],
    \* the one-to-one chat with Alice whose participants carry numeric ids
    c3  |-> [NoRaw EXCEPT !.chatid = StrId(<<"c", "3">>), !.chat_type = NumId(<<"1">>),
                          !.title = <<"A", "l", "i", "c", "e">>, !.summary = "s3"],
    \* a thread, a bot and a group chat
    ct  |-> [NoRaw EXCEPT !.chatid = StrId(<<"c", "t">>), !.chat_type = NumId(<<"1", "1">>),
                          !.title = <<"a", "l", "i", "g", "n">>],
    cb  |-> [NoRaw EXCEPT !.chatid = StrId(<<"c", "b">>), !.chat_type = NumId(<<"9">>),
                          !.title = <<"A", "l", "i", "b", "o", "t">>],
    cg  |-> [NoRaw EXCEPT !.chatid = StrId(<<"c", "g">>), !.chat_type = NumId(<<"2">>),
                          !.title = <<"a", "l", "i", "e", "n", "s">>],
    \* a record of the global search API that carries no module tag
    g6  |-> [NoRaw EXCEPT !.chatid = StrId(<<"c", "6">>), !.chat_type = NumId(<<"2">>),
                          !.title = <<"h", "i", " ", "a", "l", "i">>] ]

\* A large local dataset: sixteen channels titled "ali" and sixteen people
\* named "ali", each with its own id
BulkChatHandles ==
  <<"k01", "k02", "k03", "k04", "k05", "k06", "k07", "k08",
    "k09", "k10", "k11", "k12", "k13", "k14", "k15", "k16">>

BulkUserHandles ==
  <<"p01", "p02", "p03", "p04", "p05", "p06", "p07", "p08",
    "p09", "p10", "p11", "p12", "p13", "p14", "p15", "p16">>

BulkLetters ==
  <<"a", "b", "c", "d", "e", "f", "g", "h", "i", "j", "k", "l", "m", "n", "o", "p">>

BulkRecords ==
  [h \in Range(BulkChatHandles) \cup Range(BulkUserHandles) |->
     IF h \in Range(BulkChatHandles)
     THEN [NoRaw EXCEPT
             !.chatid = StrId(<<"k", BulkLetters[CHOOSE n \in 1..16 : BulkChatHandles[n] = h]>>),
             !.chat_type = NumId(<<"8">>),
             !.title = <<"a", "l", "i">>]
     ELSE [NoRaw EXCEPT
             !.zuid = StrId(<<"p", BulkLetters[CHOOSE n \in 1..16 : BulkUserHandles[n] = h]>>),
             !.full_name = <<"a", "l", "i">>]]

\* Every record the program meets, by handle
Raw == Records @@ BulkRecords

\* An element of an array of records: the record it was spread from and the
\* fields the pipeline writes over it.
Item(h) ==
  [ raw |-> h, title |-> Raw[h].title, _module |-> Raw[h]._module,
    _source |-> Raw[h]._source, id |-> UndefId,
    _score |-> -1, _matchType |-> "", _matchScore |-> -1 ]

\* ------------------------------------------------------------------------
\* engine/scorer.js
\* ------------------------------------------------------------------------
\* DEFAULT_SCORER_CONFIG.matchScores, in tenths
MatchScores == [exact |-> 15, startsWith |-> 10, afterSpace |-> 6, middle |-> 3]

\* null, as the result of a match
NoMatch == [type |-> "none", score |-> 0]

\* A field that is truthy but not a string (an already decoded summary):
\* field.toLowerCase is not a function.
NonString == <<"[object]">>

\* detectMatch looking for the keyword anywhere before looking after a space
MatchOf_ContainsFirst(k, f) ==
  IF k = <<>> \/ f = <<>> THEN NoMatch
  ELSE IF f = k THEN [type |-> "exact", score |-> MatchScores.exact]
  ELSE IF StartsWith(f, k) THEN [type |-> "startsWith", score |-> MatchScores.startsWith]
  ELSE IF Includes(f, k) THEN [type |-> "middle", score |-> MatchScores.middle]
  ELSE IF Includes(f, <<" ">> \o k)
       THEN [type |-> "afterSpace", score |-> MatchScores.afterSpace]
  ELSE NoMatch

\* detectMatch on the lowercased, trimmed keyword k and field f
MatchOf(k, f) ==
  IF k = <<>> \/ f = <<>> THEN NoMatch
  ELSE IF f = k THEN [type |-> "exact", score |-> MatchScores.exact]
  ELSE IF StartsWith(f, k) THEN [type |-> "startsWith", score |-> MatchScores.startsWith]
  ELSE IF Includes(f, <<" ">> \o k)
       THEN [type |-> "afterSpace", score |-> MatchScores.afterSpace]
  ELSE IF Includes(f, k) THEN [type |-> "middle", score |-> MatchScores.middle]
  ELSE NoMatch

detectMatch(kw, field) ==
  IF ~Truthy(kw) \/ ~Truthy(field) THEN NoMatch
  ELSE MatchOf(Trim(ToLowerCase(kw)), Trim(ToLowerCase(field)))

\* if (m && (!best || m.score > best.score)) best = m
Better(m, best) ==
  IF m # NoMatch /\ (best = NoMatch \/ m.score > best.score) THEN m ELSE best

RECURSIVE BestFrom(_, _, _)
BestFrom(kw, fields, best) ==
  IF fields = <<>> THEN best
  ELSE BestFrom(kw, Tail(fields), Better(detectMatch(kw, Head(fields)), best))

bestFieldMatch(kw, fields) == BestFrom(kw, fields, NoMatch)

RECURSIVE BestKeyword(_, _, _)
BestKeyword(keywords, fields, bestMatch) ==
  IF keywords = <<>> THEN bestMatch
  ELSE BestKeyword(Tail(keywords), fields,
                   Better(bestFieldMatch(Head(keywords), fields), bestMatch))

\* The return of scoreQuery, from the phrase match and the best keyword match
PickMatch(phraseMatch, bestMatch) ==
  IF phraseMatch = NoMatch THEN bestMatch
  ELSE IF bestMatch = NoMatch THEN phraseMatch
  ELSE IF bestMatch.score > phraseMatch.score THEN bestMatch ELSE phraseMatch

scoreQuery(keywords, phrase, fields) ==
  PickMatch(IF Len(keywords) > 1 THEN bestFieldMatch(phrase, fields) ELSE NoMatch,
            BestKeyword(keywords, fields, NoMatch))

\* The return of computeScore for a match: the scored copy of the item in a
\* one-element list, or the empty list for null.  rawModuleWeight is in
\* hundredths, 0 standing for undefined.
Scored(item, match, rawModuleWeight) ==
  IF match = NoMatch THEN <<>>
  ELSE << [item EXCEPT
             !._score = match.score * (IF rawModuleWeight = 0 THEN 100
                                       ELSE rawModuleWeight),
             !._matchType = match.type,
             !._matchScore = match.score] >>

computeScore(item, keywords, phrase, fields, rawModuleWeight) ==
  Scored(item, scoreQuery(keywords, phrase, fields), rawModuleWeight)

\* Array.prototype.sort with a descending numeric comparator is stable:
\* items[i] is placed after every item whose key is at least keys[i].
RECURSIVE InsertDesc(_, _)
InsertDesc(sorted, p) ==
  IF sorted = <<>> THEN <<p>>
  ELSE IF Head(sorted).k >= p.k THEN <<Head(sorted)>> \o InsertDesc(Tail(sorted), p)
       ELSE <<p>> \o sorted

RECURSIVE SortPairs(_)
SortPairs(ps) ==
  IF ps = <<>> THEN <<>>
  ELSE InsertDesc(SortPairs(SubSeq(ps, 1, Len(ps) - 1)), ps[Len(ps)])

\* The items of a list of [k, x] entries
Values(entries) == [i \in 1..Len(entries) |-> entries[i].x]

SortDescBy(items, keys) ==
  Values(SortPairs([i \in 1..Len(items) |-> [k |-> keys[i], x |-> items[i]]]))

\* items.sort((a, b) => b._score - a._score)
SortByScore(items) == SortDescBy(items, [i \in 1..Len(items) |-> items[i]._score])

\* ------------------------------------------------------------------------
\* store/searchSlice.js: constants and helpers
\* ------------------------------------------------------------------------
MAX_CLIENT_CHATS == 500
MAX_CLIENT_USERS == 100

\* 10 * 60 * 1000
CACHE_TIMEOUT_MS == 600000

\* in hundredths
DEFAULT_MODULE_WEIGHTS ==
  [ users |-> 150, chats |-> 140, channels |-> 120, department |-> 110,
    messages |-> 100, files |-> 95, bots |-> 90, threads |-> 85, widgets |-> 75,
    apps |-> 75, connections |-> 60, settings |-> 60 ]

\* moduleWeights[item._module] ?? DEFAULT_MODULE_WEIGHTS[item._module]; 0 is undefined
getWeight(item) ==
  IF item._module \in DOMAIN DEFAULT_MODULE_WEIGHTS
  THEN DEFAULT_MODULE_WEIGHTS[item._module] ELSE 0

\* The value of item.recipantssummary as a scoring field
SummaryField(item) ==
  IF Summaries[Raw[item.raw].summary].form = "string"
  THEN Summaries[Raw[item.raw].summary].text
  ELSE IF Summaries[Raw[item.raw].summary].form \in {"array", "object"} THEN NonString
  ELSE Undef

\* MODULE_FIELD_MAP / DEFAULT_FIELDS, then .filter(Boolean).  The fields no
\* record of the data carries (dname, recipientssumm, msg, ctitle,
\* description) are undefined and left out.
getDefaultResolveFields(item) ==
  SelectSeq(
    CASE item._module = "users"    -> <<Raw[item.raw].full_name, Raw[item.raw].email>>
      [] item._module = "chats"    -> <<SummaryField(item), Raw[item.raw].name, item.title>>
      [] item._module = "channels" -> <<item.title>>
      [] item._module = "messages" -> <<Raw[item.raw].message>>
      [] OTHER -> <<Raw[item.raw].name, item.title, Raw[item.raw].full_name>>,
    Truthy)

\* item.full_name || item.name || item.title
DisplayName(item) ==
  IF Truthy(Raw[item.raw].full_name) THEN Raw[item.raw].full_name
  ELSE IF Truthy(Raw[item.raw].name) THEN Raw[item.raw].name ELSE item.title

\* [key, kind]: `users::name::${name}` or `${_module}::${id ?? name ?? Math.random()}`.
\* n is 0 except for a Math.random() key, where it is the caller's fresh number:
\* two evaluations of Math.random() never agree.
getDefaultDedupKey(item, fresh) ==
  IF item._module = "users" /\ Truthy(DisplayName(item))
  THEN [kind |-> "users::name::", mod |-> "users",
        text |-> ToLowerCase(DisplayName(item)), n |-> 0]
  ELSE IF item.id.t # "undef"
       THEN [kind |-> "::", mod |-> item._module, text |-> String(item.id), n |-> 0]
  ELSE IF Raw[item.raw].name # Undef
       THEN [kind |-> "::", mod |-> item._module, text |-> Raw[item.raw].name, n |-> 0]
  ELSE [kind |-> "::", mod |-> item._module, text |-> <<>>, n |-> fresh]

\* JSON.parse(summary) for a string, summary || [] otherwise; "throws" and
\* "notArray" are the two ways the decoding fails.
Participants(h) ==
  IF \/ Summaries[h].form = "string" /\ Summaries[h].json # "array"
     \/ Summaries[h].form = "object"
  THEN [ok |-> FALSE, parts |-> <<>>]
  ELSE [ok |-> TRUE, parts |-> Summaries[h].parts]

\* participants.find(pred), given the indices pred holds of: the first one, 0 for undefined
FirstIndex(hits) ==
  IF hits = {} THEN 0 ELSE CHOOSE i \in hits : \A j \in hits : i <= j

\* a || b on the indices find returned
OrElse(a, b) == IF a # 0 THEN a ELSE b

\* otherUser, as an index into participants (0 for null)
FindOther(ps, loggedInZuid, chatTitle) ==
  OrElse(IF IdTruthy(loggedInZuid)
         THEN FirstIndex({k \in 1..Len(ps) : String(ps[k].zuid) # String(loggedInZuid)})
         ELSE 0,
         OrElse(IF Truthy(chatTitle)
                THEN FirstIndex({k \in 1..Len(ps) : ps[k].dname = chatTitle})
                ELSE 0,
                IF Len(ps) = 1 THEN 1 ELSE 0))

\* otherUser?.zuid || null
ZuidAt(ps, other) ==
  IF other # 0 /\ IdTruthy(ps[other].zuid) THEN ps[other].zuid ELSE UndefId

\* Returns the zuid, UndefId standing for null
getOtherUserId(summary, loggedInZuid, chatTitle) ==
  IF ~Participants(summary).ok THEN UndefId
  ELSE ZuidAt(Participants(summary).parts,
              FindOther(Participants(summary).parts, loggedInZuid, chatTitle))

chatTypeToModule(chatType) ==
  CASE String(chatType) = <<"8">> -> "channels"
    [] String(chatType) = <<"1">> -> "users"
    [] String(chatType) = <<"1", "1">> -> "threads"
    [] String(chatType) = <<"9">> -> "bot"
    [] OTHER -> ""

\* The local stage that keeps an unresolved other party as the identifier
ChatItemId_NoFallback(c, loggedUserZuid) ==
  IF String(Raw[c.raw].chat_type) = <<"1">>
  THEN getOtherUserId(Raw[c.raw].summary, loggedUserZuid, c.title)
  ELSE Raw[c.raw].chatid

\* The canonical identifier of a chat-like record: the other party of a
\* one-to-one conversation when it resolves, else the chat id.
ChatItemId(c, loggedUserZuid) ==
  IF /\ String(Raw[c.raw].chat_type) = <<"1">>
     /\ IdTruthy(getOtherUserId(Raw[c.raw].summary, loggedUserZuid, c.title))
  THEN getOtherUserId(Raw[c.raw].summary, loggedUserZuid, c.title)
  ELSE Raw[c.raw].chatid

buildExclusionSets(chats, users, loggedUserZuid) ==
  [ existingChatIds |->
      {String(Raw[c.raw].chatid) : c \in {x \in Range(chats) : IdTruthy(Raw[x.raw].chatid)}},
    existingUserIds |->
      {String(getOtherUserId(Raw[c.raw].summary, loggedUserZuid, c.title)) :
         c \in {x \in Range(chats) :
                  /\ String(Raw[x.raw].chat_type) = <<"1">>
                  /\ IdTruthy(getOtherUserId(Raw[x.raw].summary, loggedUserZuid, x.title))}}
      \cup {String(Raw[u.raw].zuid) : u \in {x \in Range(users) : IdTruthy(Raw[x.raw].zuid)}} ]

Prefix(s, n) == SubSeq(s, 1, IF Len(s) < n THEN Len(s) ELSE n)

\* c.title.replace throws a TypeError when a chat has no title
ClientSearchThrows(chats) ==
  \E c \in Range(Prefix(chats, MAX_CLIENT_CHATS)) : c.title = Undef

\* chats.slice(0, MAX_CLIENT_CHATS).map(...)
MapChats(chats, loggedUserZuid) ==
  [i \in 1..Len(Prefix(chats, MAX_CLIENT_CHATS)) |->
     [chats[i] EXCEPT !.title = StripMarker(chats[i].title),
                      !._module = chatTypeToModule(Raw[chats[i].raw].chat_type),
                      !._source = "client",
                      !.id = ChatItemId(chats[i], loggedUserZuid)]]

\* .sort((a, b) => (b.score || 0) - (a.score || 0))
SortByRawScore(items) ==
  SortDescBy(items, [i \in 1..Len(items) |-> Raw[items[i].raw].score])

\* clientChats
ClientChats(chats, queryLower, loggedUserZuid) ==
  SortByRawScore(SelectSeq(MapChats(chats, loggedUserZuid),
                           LAMBDA c : StartsWith(ToLowerCase(c.title), queryLower)))

\* users.slice(0, MAX_CLIENT_USERS).map(...)
MapUsers(users) ==
  [i \in 1..Len(Prefix(users, MAX_CLIENT_USERS)) |->
     [users[i] EXCEPT !._module = "users",
                      !._source = "client",
                      !.id = IF IdTruthy(Raw[users[i].raw].zuid)
                             THEN Raw[users[i].raw].zuid ELSE users[i].id]]

\* nameMatch || emailMatch
UserMatches(u, queryLower) ==
  \/ StartsWith(ToLowerCase(IF Truthy(Raw[u.raw].full_name)
                            THEN Raw[u.raw].full_name ELSE <<>>), queryLower)
  \/ StartsWith(ToLowerCase(IF Truthy(Raw[u.raw].email)
                            THEN Raw[u.raw].email ELSE <<>>), queryLower)

\* clientUsers
ClientUsers(users, queryLower, clientChatZuids) ==
  SelectSeq(MapUsers(users),
            LAMBDA u : UserMatches(u, queryLower) /\ String(u.id) \notin clientChatZuids)

\* The return value of runClientSearch
ClientSearchResult(clientChats, clientUsers) ==
  [clientChats |-> clientChats, clientUsers |-> clientUsers,
   clientResults |-> clientChats \o clientUsers]

\* The user search without the set of people the one-to-one chats cover
SearchUsers_NoExclusion(clientChats, users, queryLower) ==
  ClientSearchResult(clientChats, ClientUsers(users, queryLower, {}))

\* runClientSearch once clientChats is computed
SearchUsers(clientChats, users, queryLower) ==
  ClientSearchResult(
    clientChats,
    ClientUsers(users, queryLower,
                {String(c.id) : c \in {x \in Range(clientChats) : x._module = "users"}}))

runClientSearch(chats, users, queryLower, loggedUserZuid) ==
  SearchUsers(ClientChats(chats, queryLower, loggedUserZuid), users, queryLower)

\* detectMatch throws a TypeError when a field is not a string
RankThrows(items, keywords) ==
  /\ \E i \in 1..Len(keywords) : Truthy(keywords[i])
  /\ \E it \in Range(items) : NonString \in Range(getDefaultResolveFields(it))

\* rankResults without the final sort
rankResults_Unsorted(items, keywords, phrase) ==
  Flat([i \in 1..Len(items) |->
          computeScore(items[i], keywords, phrase,
                       getDefaultResolveFields(items[i]), getWeight(items[i]))])

rankResults(items, keywords, phrase) ==
  SortByScore(
    Flat([i \in 1..Len(items) |->
            computeScore(items[i], keywords, phrase,
                         getDefaultResolveFields(items[i]), getWeight(items[i]))]))

\* seen.set(k, x) whatever the entry of k scores
Put_KeepLast(seen, k, x) ==
  IF \A j \in 1..Len(seen) : seen[j].k # k
  THEN Append(seen, [k |-> k, x |-> x])
  ELSE [j \in 1..Len(seen) |-> IF seen[j].k = k THEN [k |-> k, x |-> x] ELSE seen[j]]

\* seen.set(k, x) unless the entry of k scores at least as high: a key seen
\* again keeps its place in the Map
Put(seen, k, x) ==
  IF \A j \in 1..Len(seen) : seen[j].k # k
  THEN Append(seen, [k |-> k, x |-> x])
  ELSE [j \in 1..Len(seen) |->
          IF seen[j].k = k /\ x._score > seen[j].x._score
          THEN [k |-> k, x |-> x] ELSE seen[j]]

\* The Map of deduplicateBy after the first n items, as the list of its
\* [k, x] entries in insertion order
RECURSIVE SeenUpTo(_, _)
SeenUpTo(items, n) ==
  IF n = 0 THEN <<>>
  ELSE Put(SeenUpTo(items, n - 1), getDefaultDedupKey(items[n], n), items[n])

deduplicateBy(items) == SortByScore(Values(SeenUpTo(items, Len(items))))

\* ------------------------------------------------------------------------
\* queryParser.js

FILTER_TOKENS ==
  { <<"f", "r", "o", "m">>,
    <<"t", "o">>,
    <<"i", "n">>,
    <<"a", "f", "t", "e", "r">>,
    <<"b", "e", "f", "o", "r", "e">>,
    <<"o", "n">>,
    <<"f", "i", "l", "e", "n", "a", "m", "e", "h", "a", "s">>,
    <<"l", "i", "n", "k", "h", "a", "s">>,
    <<"f", "i", "l", "e", "h", "a", "s">>,
    <<"f", "i", "l", "e", "o", "b", "j", "e", "c", "t">> }

\* FILTER_TOKENS in the order of localeCompare
SortedTokens ==
  << <<"a", "f", "t", "e", "r">>,
     <<"b", "e", "f", "o", "r", "e">>,
     <<"f", "i", "l", "e", "h", "a", "s">>,
     <<"f", "i", "l", "e", "n", "a", "m", "e", "h", "a", "s">>,
     <<"f", "i", "l", "e", "o", "b", "j", "e", "c", "t">>,
     <<"f", "r", "o", "m">>,
     <<"i", "n">>,
     <<"l", "i", "n", "k", "h", "a", "s">>,
     <<"o", "n">>,
     <<"t", "o">> >>

\* The characters of the regex class \w
WordChars ==
  { "a", "b", "c", "d", "e", "f", "g", "h", "i", "j", "k", "l", "m", "n", "o", "p",
    "q", "r", "s", "t", "u", "v", "w", "x", "y", "z",
    "A", "B", "E", "F", "I", "L", "M", "O", "R",
    "0", "1", "2", "3", "4", "5", "6", "7", "8", "9", "_" }

\* The end of the run of \w that holds position i
RECURSIVE RunEnd(_, _)
RunEnd(s, i) == IF i < Len(s) /\ s[i + 1] \in WordChars THEN RunEnd(s, i + 1) ELSE i

\* The end of the run of [^\s] that holds position i
RECURSIVE ValueEnd(_, _)
ValueEnd(s, i) == IF i < Len(s) /\ s[i + 1] \notin WhiteSpace THEN ValueEnd(s, i + 1) ELSE i

\* TOKEN_RE matches at the run of \w from i to j: a colon and a value follow
MatchAt(s, j) == j + 2 <= Len(s) /\ s[j + 1] = ":" /\ s[j + 2] \notin WhiteSpace

\* m of TOKEN_RE.exec: m[1].toLowerCase(), m[2], m[0]
TokenAt(s, i, j, e) ==
  [key |-> ToLowerCase(SubSeq(s, i, j)), value |-> SubSeq(s, j + 2, e),
   text |-> SubSeq(s, i, e)]

\* The matches of the loop over TOKEN_RE.exec(raw), from lastIndex p - 1 on
RECURSIVE ExecAll(_, _)
ExecAll(s, p) ==
  IF p > Len(s) THEN <<>>
  ELSE IF s[p] \notin WordChars THEN ExecAll(s, p + 1)
  ELSE IF MatchAt(s, RunEnd(s, p))
       THEN <<TokenAt(s, p, RunEnd(s, p), ValueEnd(s, RunEnd(s, p) + 2))>>
            \o ExecAll(s, ValueEnd(s, RunEnd(s, p) + 2) + 1)
       ELSE ExecAll(s, RunEnd(s, p) + 1)

\* Every match taken as a filter, whatever its key
Recognized_AnyKey(ms) == ms

\* The matches whose key is in validTokens
Recognized(ms) == SelectSeq(ms, LAMBDA m : m.key \in FILTER_TOKENS)

\* filters[key] = m[2].replace(/^[@#]/, ''): the last match of a key wins
Filters(ms) ==
  [k \in {ms[i].key : i \in 1..Len(ms)} |->
     StripMarker(ms[CHOOSE i \in 1..Len(ms) :
                      ms[i].key = k /\ \A j \in 1..Len(ms) : ms[j].key = k => j <= i].value)]

\* s without the n characters from position i on
CutAt(s, i, n) == SubSeq(s, 1, i - 1) \o SubSeq(s, i + n, Len(s))

\* remaining.replace(tok, ''), tok a string: its first occurrence goes
ReplaceFirst(s, tok) ==
  IF Includes(s, tok)
  THEN CutAt(s, FirstIndex({i \in 1..(Len(s) - Len(tok) + 1) :
                              SubSeq(s, i, i + Len(tok) - 1) = tok}), Len(tok))
  ELSE s

\* for (const tok of removed) remaining = remaining.replace(tok, '')
RECURSIVE RemoveAll(_, _)
RemoveAll(remaining, removed) ==
  IF removed = <<>> THEN remaining
  ELSE RemoveAll(ReplaceFirst(remaining, Head(removed).text), Tail(removed))

\* replace(/\s+/g, ' ')
RECURSIVE CollapseSpaces(_)
CollapseSpaces(s) ==
  IF s = <<>> THEN <<>>
  ELSE IF Head(s) \in WhiteSpace THEN <<" ">> \o CollapseSpaces(TrimStart(Tail(s)))
  ELSE <<Head(s)>> \o CollapseSpaces(Tail(s))

\* split(/\s+/) of a trimmed, non-empty string: cur is the word being read
RECURSIVE SplitWords(_, _)
SplitWords(s, cur) ==
  IF s = <<>> THEN <<cur>>
  ELSE IF Head(s) \in WhiteSpace THEN <<cur>> \o SplitWords(TrimStart(Tail(s)), <<>>)
  ELSE SplitWords(Tail(s), Append(cur, Head(s)))

\* The ParsedQuery returned for the filters and the trimmed text
Parsed(raw, filters, trimmed, keywords) ==
  [ raw |-> raw, trimmed |-> trimmed, phrase |-> trimmed, keywords |-> keywords,
    isEmpty |-> (Len(keywords) = 0 /\ DOMAIN filters = {}),
    isMultiWord |-> (Len(keywords) > 1),
    filters |-> filters ]

\* parseQuery once the text after removal is known
ParsedText(raw, filters, trimmed) ==
  Parsed(raw, filters, trimmed, IF trimmed = <<>> THEN <<>> ELSE SplitWords(trimmed, <<>>))

\* parseQuery once the recognized matches are known
ParsedFrom(raw, removed) ==
  ParsedText(raw, Filters(removed), Trim(CollapseSpaces(RemoveAll(raw, removed))))

parseQuery(raw) == ParsedFrom(raw, Recognized(ExecAll(raw, 1)))

\* parts.join(sep)
RECURSIVE JoinWith(_, _)
JoinWith(parts, sep) ==
  IF parts = <<>> THEN <<>>
  ELSE IF Len(parts) = 1 THEN parts[1]
  ELSE parts[1] \o sep \o JoinWith(Tail(parts), sep)

\* Object.entries(pq.filters).sort(...).map(([k, v]) => `${k}:${v}`)
FilterEntries(filters) ==
  [i \in 1..Len(SelectSeq(SortedTokens, LAMBDA k : k \in DOMAIN filters)) |->
     SelectSeq(SortedTokens, LAMBDA k : k \in DOMAIN filters)[i] \o <<":">>
       \o filters[SelectSeq(SortedTokens, LAMBDA k : k \in DOMAIN filters)[i]]]

serializeQuery(pq) ==
  JoinWith(SelectSeq(<<pq.trimmed, JoinWith(FilterEntries(pq.filters), <<" ">>)>>,
                     LAMBDA x : x # <<>>),
           <<" ">>)

\* ------------------------------------------------------------------------
\* The environment of executeSearch: what the caller passes and what the
\* remote modules answer
\* ------------------------------------------------------------------------
\* The parsed queries the caller dispatches (parseQuery of "al", "ali" and
\* "from:bob ali")
Queries ==
  [ al  |-> [trimmed |-> <<"a", "l">>, phrase |-> <<"a", "l">>,
             keywords |-> << <<"a", "l">> >>, filters |-> <<>>],
    ali |-> [trimmed |-> <<"a", "l", "i">>, phrase |-> <<"a", "l", "i">>,
             keywords |-> << <<"a", "l", "i">> >>, filters |-> <<>>],
    bobali |-> parseQuery(<<"f", "r", "o", "m", ":", "b", "o", "b", " ", "a", "l", "i">>) ]

\* The queries without a filter token
KeywordQueries == {"al", "ali"}

\* The categories the caller searches under (two tabs of the home context)
Categories == {"users", "chats"}

\* enabledModules, as index.jsx passes it
EnabledModules ==
  {"users", "chats", "channels", "messages", "files", "department", "bots",
   "threads", "widgets", "apps", "connections", "settings"}

\* The keys of moduleApis (searchModuleApis)
ModuleApis == {"globalsearch", "users", "channels", "messages"}

\* The order in which buildServerPromises pushes its promises
PromiseOrder ==
  <<"globalsearch", "users", "chats", "channels", "bots", "threads", "messages",
    "files", "department", "widgets", "apps", "connections", "settings">>

\* What a module may answer to a query: the raw records of a resolved call
ServerAnswers(mod, q) ==
  CASE mod = "globalsearch" ->
         IF q = "al" THEN {<<"g1", "g3">>, <<"g1", "g3", "g4">>, <<"g1", "g5">>}
         ELSE {<<"g1", "g3">>}
    [] mod = "users"    -> {<<"su1", "su3", "su4", "su5">>}
    [] mod = "channels" -> IF q = "al" THEN {<<"sc2", "sc3">>} ELSE {<<"sc3">>}
    [] mod = "messages" -> {<<"sm1", "sm2">>}
    [] OTHER -> {<<>>}

\* The modules buildServerPromises calls for a category
\* The modules called whatever the caller enabled
CalledModules_IgnoreEnabled(enabledModules, activeCategory) ==
  {"globalsearch"} \cup
  {m \in ModuleApis \ {"globalsearch"} :
     activeCategory = "all" \/ activeCategory = m}

CalledModules(enabledModules, activeCategory) ==
  {"globalsearch"} \cup
  {m \in ModuleApis \ {"globalsearch"} :
     m \in enabledModules /\ (activeCategory = "all" \/ activeCategory = m)}

\* _module: item._module || <default>, _source: item._source || 'server'
Tagged(h, dflt) ==
  [Item(h) EXCEPT !._module = IF Raw[h]._module # "" THEN Raw[h]._module ELSE dflt,
                  !._source = IF Raw[h]._source # "" THEN Raw[h]._source ELSE "server"]

\* The .then handler of a module call: tag, key and filter the raw records
ThenHandler(mod, rawList, loggedUserZuid, existingChatIds, existingUserIds) ==
  IF mod = "globalsearch"
  THEN [i \in 1..Len(rawList) |->
          [Tagged(rawList[i], "") EXCEPT
             !.id = ChatItemId(Item(rawList[i]), loggedUserZuid)]]
  ELSE IF mod = "users"
  THEN SelectSeq([i \in 1..Len(rawList) |->
                    [Tagged(rawList[i], "users") EXCEPT !.id = Raw[rawList[i]].zuid]],
                 LAMBDA it : String(it.id) \notin existingUserIds)
  ELSE IF mod \in {"chats", "channels", "bots", "threads"}
  THEN SelectSeq([i \in 1..Len(rawList) |->
                    [Tagged(rawList[i], mod) EXCEPT !.id = Raw[rawList[i]].chatid]],
                 LAMBDA it : String(it.id) \notin existingChatIds)
  ELSE [i \in 1..Len(rawList) |->
          [Tagged(rawList[i], mod) EXCEPT
             !.id = IF mod = "messages" THEN Raw[rawList[i]].msguid ELSE UndefId]]

\* enrichClientData: the global-search records appended to chats and the
\* users-API records appended to users, each unless its id is already known
RECURSIVE AppendUnique(_, _, _, _)
AppendUnique(list, known, items, ids) ==
  IF items = <<>> THEN list
  ELSE IF IdTruthy(Head(ids)) /\ String(Head(ids)) \notin known
       THEN AppendUnique(Append(list, Head(items)), known \cup {String(Head(ids))},
                         Tail(items), Tail(ids))
       ELSE AppendUnique(list, known, Tail(items), Tail(ids))

enrichClientData(chats, users, existingChatIds, existingUserIds, captured) ==
  [ chats |-> AppendUnique(chats, existingChatIds, captured.globalSearchResults,
                           [i \in 1..Len(captured.globalSearchResults) |->
                              Raw[captured.globalSearchResults[i].raw].chatid]),
    users |-> AppendUnique(users, existingUserIds, captured.usersApiResults,
                           [i \in 1..Len(captured.usersApiResults) |->
                              Raw[captured.usersApiResults[i].raw].zuid]) ]

\* MergeResults without the filter against the local results
MergeResults_NoFilter(clientResults, serverResults) ==
  clientResults \o deduplicateBy(serverResults)

\* MergeResults without deduplicateBy
MergeResults_NoDedup(clientResults, serverResults) ==
  clientResults \o
  SelectSeq(serverResults,
            LAMBDA sItem :
              \A i \in 1..Len(clientResults) :
                getDefaultDedupKey(clientResults[i], 1000 + i)
                  # getDefaultDedupKey(sItem, 2000))

\* Step 6 of executeSearch: the merged list before the cap
MergeResults(clientResults, serverResults) ==
  clientResults \o
  SelectSeq(deduplicateBy(serverResults),
            LAMBDA sItem :
              \A i \in 1..Len(clientResults) :
                getDefaultDedupKey(clientResults[i], 1000 + i)
                  # getDefaultDedupKey(sItem, 2000))

\* maxResults ? merged.slice(0, maxResults) : merged; 0 is undefined
CapResults(merged, maxResults) ==
  IF maxResults # 0 THEN Prefix(merged, maxResults) ELSE merged

\* ------------------------------------------------------------------------
\* State
\* ------------------------------------------------------------------------
\* The times the model observes are the multiples of the sweep period (5 * 60 * 1000)
SWEEP_INTERVAL_MS == 300000

\* The values of the maxResults option: 0 (not set) and a cap
MaxResultsOptions == {0, 2}

VARIABLES
  results,          \* state.search.results
  isLoading,        \* state.search.isLoading
  error,            \* state.search.error ("null" for null)
  cache,            \* state.search.cache: key -> [results, timestamp, activeCategory]
  abortController,  \* _abortController: 0 for null, else the invocation that made it
  chats,            \* clientData.chats
  users,            \* clientData.users
  maxResults,       \* the maxResults option of the hook
  inv,              \* the invocations of executeSearch, by dispatch order
  nextId,           \* the number of the next invocation
  now,              \* Date.now()
  resultsBy,        \* the invocation whose action last assigned results (0: none)
  failures,         \* the number of module calls that failed so far
  searchHistory,    \* state.search.searchHistory
  call,             \* the last call of a helper: [fn, args, ret]
  query,            \* state.search.query
  parsedQuery,      \* state.search.parsedQuery
  activeFilters,    \* state.search.activeFilters: key -> value
  highlightedIndex, \* state.search.highlightedIndex (0-based)
  activeCategory    \* state.search.activeCategory

\* The query and the UI state of the store
ui == <<query, parsedQuery, activeFilters, highlightedIndex, activeCategory>>

vars == <<results, isLoading, error, cache, abortController, chats, users,
          maxResults, inv, nextId, now, resultsBy, failures, searchHistory, call, ui>>

\* The query and the UI state of initialState
InitUI ==
  /\ query = <<>>
  /\ parsedQuery = parseQuery(<<>>)
  /\ activeFilters = <<>>
  /\ highlightedIndex = -1
  /\ activeCategory = "all"

\* No helper has been called
NoCall == [fn |-> "", args |-> <<>>, ret |-> <<>>]

Invocations == 1..MaxInv

\* An invocation that has not been dispatched.
\*   pc              "idle", "awaiting" (at await Promise.all) or "done"
\*   q, cat          parsedQuery (a key of Queries) and activeCategory
\*   startedAt       the local `now`
\*   cached          what the local `cached` held: [present, activeCategory, timestamp]
\*                   (both kept while the thunk runs and after a cache hit)
\*   aborted         signal.aborted of the signal the invocation created
\*   abortedAwaiting the signal was aborted while the invocation was awaiting
\*   clientResults   the result of the local stage
\*   partials        the number of updateResults actions it dispatched
\*   called          the modules whose API it called
\*   calls, resp     per module: the state of its promise and the list it resolved to
\*   outcome         "cache", "final", "aborted" or "rejected" once done
\*   ret             the results of the returned payload (kept for "final")
\*   wroteCache      the invocation dispatched setCacheEntry
\*   doneAt          Date.now() when it returned
IdleInv ==
  [ pc |-> "idle", q |-> "", cat |-> "", startedAt |-> 0,
    cached |-> [present |-> FALSE, activeCategory |-> "", timestamp |-> 0],
    aborted |-> FALSE, abortedAwaiting |-> FALSE,
    existingChatIds |-> {}, existingUserIds |-> {},
    enabledModules |-> {}, clientResults |-> <<>>, partials |-> 0, called |-> {},
    calls |-> [m \in ModuleApis |-> "none"],
    resp |-> [m \in ModuleApis |-> <<>>],
    outcome |-> "", ret |-> <<>>, wroteCache |-> FALSE, doneAt |-> 0 ]

Init ==
  /\ results = <<>>
  /\ isLoading = FALSE
  /\ error = "null"
  /\ cache = <<>>
  /\ abortController = 0
  /\ chats = <<Item("c1"), Item("c2")>>
  /\ users = <<Item("u1"), Item("u2")>>
  /\ maxResults = 0
  /\ inv = [i \in Invocations |-> IdleInv]
  /\ nextId = 1
  /\ now = 0
  /\ resultsBy = 0
  /\ failures = 0
  /\ searchHistory = <<>>
  /\ call = NoCall
  /\ InitUI

\* ------------------------------------------------------------------------
\* executeSearch
\* ------------------------------------------------------------------------
cacheKey(q) == ToLowerCase(Queries[q].trimmed)

\* The cache check with an entry of exactly the TTL still served
CacheHit_Inclusive(cached, category, t) ==
  /\ cached.present
  /\ cached.activeCategory = category
  /\ t - cached.timestamp <= CACHE_TIMEOUT_MS

\* The cache check of step 0
CacheHit(cached, category, t) ==
  /\ cached.present
  /\ cached.activeCategory = category
  /\ t - cached.timestamp < CACHE_TIMEOUT_MS

\* A cache hit returned as a partial result
CachedPayload_Partial(entry) ==
  [results |-> entry.results, isPartial |-> TRUE, fromCache |-> TRUE]

\* The payload returned on a cache hit
CachedPayload(entry) == [results |-> entry.results, isPartial |-> FALSE, fromCache |-> TRUE]

\* state.cache[key] = value
setCacheEntry(c, key, value) ==
  [k \in DOMAIN c \cup {key} |-> IF k = key THEN value ELSE c[k]]

\* getAbortSignal() without the abort of the controller in place
AbortPrevious_None(invs) == invs

\* getAbortSignal(): abort the controller in place, if any (invs with the
\* abort recorded)
AbortPrevious(invs) ==
  IF abortController = 0 THEN invs
  ELSE [invs EXCEPT ![abortController].aborted = TRUE,
                    ![abortController].abortedAwaiting =
                        @ \/ invs[abortController].pc = "awaiting"]

\* serverResponses.flat(): the responses in the order of the promises
RawServer(resp) ==
  Flat([k \in 1..Len(PromiseOrder) |->
          IF PromiseOrder[k] \in ModuleApis THEN resp[PromiseOrder[k]] ELSE <<>>])

\* Step 6: the final list of the invocation with record iv
FinalList(iv) ==
  CapResults(MergeResults(iv.clientResults,
                          rankResults(RawServer(iv.resp), Queries[iv.q].keywords,
                                      Queries[iv.q].phrase)),
             maxResults)

\* The record of an invocation that returned: its locals are gone
Gone(iv) ==
  [iv EXCEPT !.pc = "done", !.doneAt = now,
             !.startedAt = 0, !.cached = IdleInv.cached,
             !.existingChatIds = {}, !.existingUserIds = {},
             !.resp = [m \in ModuleApis |-> <<>>]]

\* Step 5: enrichClientData pushes onto the caller's arrays
SetClientData(enriched) ==
  /\ chats' = enriched.chats
  /\ users' = enriched.users

\* Step 7 and the fulfilled reducer, for the final list of invocation i
Fulfilled(i, iv, invs, final) ==
  /\ inv' = [invs EXCEPT ![i] = [Gone(iv) EXCEPT !.outcome = "final",
                                                 !.ret = final,
                                                 !.wroteCache = TRUE]]
  /\ cache' = setCacheEntry(cache, cacheKey(iv.q),
                            [results |-> final, timestamp |-> now,
                             activeCategory |-> iv.cat])
  /\ results' = final
  /\ isLoading' = FALSE
  /\ resultsBy' = i
  /\ UNCHANGED error

\* A rejected reducer that clears the list
Rejected_Clears(i, iv, invs, curResults, curBy) ==
  /\ inv' = [invs EXCEPT ![i] = [Gone(iv) EXCEPT !.outcome = "rejected"]]
  /\ isLoading' = FALSE
  /\ error' = "field.toLowerCase is not a function"
  /\ results' = <<>>
  /\ resultsBy' = curBy
  /\ UNCHANGED cache

\* rejectWithValue(e.message) and the rejected reducer
Rejected(i, iv, invs, curResults, curBy) ==
  /\ inv' = [invs EXCEPT ![i] = [Gone(iv) EXCEPT !.outcome = "rejected"]]
  /\ isLoading' = FALSE
  /\ error' = "field.toLowerCase is not a function"
  /\ results' = curResults
  /\ resultsBy' = curBy
  /\ UNCHANGED cache

\* Steps 4 to 7 for invocation i, once every promise has settled, and the
\* fulfilled / rejected reducer that follows; iv is the invocation's record,
\* invs the other invocations, curResults and curBy the store's results and
\* their author when the step starts.
Completion(i, iv, invs, curResults, curBy) ==
  /\ SetClientData(enrichClientData(chats, users, iv.existingChatIds, iv.existingUserIds,
                                    [globalSearchResults |-> iv.resp["globalsearch"],
                                     usersApiResults |-> iv.resp["users"]]))
  /\ IF RankThrows(RawServer(iv.resp), Queries[iv.q].keywords)
     THEN Rejected(i, iv, invs, curResults, curBy)
     ELSE Fulfilled(i, iv, invs, FinalList(iv))

\* What the local `cached` holds: the entry of the key, if any
CachedEntry(key) ==
  IF key \in DOMAIN cache
  THEN [present |-> TRUE, activeCategory |-> cache[key].activeCategory,
        timestamp |-> cache[key].timestamp]
  ELSE IdleInv.cached

\* The record of an invocation at the cache check
Begin(q, category, cached) ==
  [IdleInv EXCEPT !.q = q, !.cat = category, !.startedAt = now, !.cached = cached]

\* The cache hit: the payload is returned and the fulfilled reducer runs
ServeFromCache(i, started, payload) ==
  /\ inv' = [inv EXCEPT ![i] = [started EXCEPT !.pc = "done",
                                               !.outcome = "cache",
                                               !.ret = <<>>,
                                               !.doneAt = now]]
  /\ results' = payload.results
  /\ resultsBy' = i
  /\ isLoading' = payload.isPartial
  /\ error' = "null"
  /\ UNCHANGED <<cache, abortController, chats, users>>

\* The record of an invocation at await Promise.all
Running(started, sets, client, called) ==
  [started EXCEPT
     !.pc = "awaiting",
     !.existingChatIds = sets.existingChatIds,
     !.existingUserIds = sets.existingUserIds,
     !.clientResults = client.clientResults,
     !.partials = 1,
     !.called = called,
     !.calls = [m \in ModuleApis |-> IF m \in called THEN "pending" ELSE "none"]]

\* Launch without the partial update of step 2
Launch_NoPartial(i, running) ==
  IF running.called # {}
  THEN /\ inv' = [AbortPrevious(inv) EXCEPT ![i] = [running EXCEPT !.partials = 0]]
       /\ error' = "null"
       /\ isLoading' = TRUE
       /\ UNCHANGED <<results, resultsBy, cache, chats, users>>
  ELSE /\ Completion(i, running, AbortPrevious(inv), running.clientResults, i)
       /\ error' = "null"

\* Steps 2 to 4 with the record the invocation awaits with: the partial
\* update, then the wait for the calls or, without calls, the completion
Launch(i, running) ==
  IF running.called # {}
  THEN /\ inv' = [AbortPrevious(inv) EXCEPT ![i] = running]
       /\ results' = running.clientResults
       /\ resultsBy' = i
       /\ isLoading' = TRUE
       /\ error' = "null"
       /\ UNCHANGED <<cache, chats, users>>
  ELSE /\ Completion(i, running, AbortPrevious(inv), running.clientResults, i)
       /\ error' = "null"

\* The cache miss: getAbortSignal and steps 1 to 4
\* The pipeline fetching only when both kinds of local match are sparse
RunPipeline_BothSparse(i, started, sets, client, category) ==
  /\ abortController' = i
  /\ IF ClientSearchThrows(chats)
     THEN /\ inv' = [AbortPrevious(inv) EXCEPT
                       ![i] = [started EXCEPT !.pc = "done",
                                              !.outcome = "rejected",
                                              !.doneAt = now]]
          /\ isLoading' = FALSE
          /\ error' = "Cannot read properties of undefined"
          /\ UNCHANGED <<results, resultsBy, cache, chats, users>>
     ELSE Launch(i, Running(started, sets, client,
                            IF /\ Len(client.clientChats) < 15
                               /\ Len(client.clientUsers) < 15
                            THEN CalledModules(started.enabledModules, category) ELSE {}))

RunPipeline(i, started, sets, client, category) ==
  /\ abortController' = i
  /\ IF ClientSearchThrows(chats)
     THEN /\ inv' = [AbortPrevious(inv) EXCEPT
                       ![i] = [started EXCEPT !.pc = "done",
                                              !.outcome = "rejected",
                                              !.doneAt = now]]
          /\ isLoading' = FALSE
          /\ error' = "Cannot read properties of undefined"
          /\ UNCHANGED <<results, resultsBy, cache, chats, users>>
     ELSE Launch(i, Running(started, sets, client,
                            IF \/ Len(client.clientChats) < 15
                               \/ Len(client.clientUsers) < 15
                            THEN CalledModules(started.enabledModules, category) ELSE {}))

\* dispatch(executeSearch({parsedQuery: Queries[q], activeCategory, ...})):
\* the pending reducer and the thunk up to its first await; a cache hit is
\* fulfilled in the same step, as is an invocation without remote calls.
DispatchWith(q, category, enabledModules) ==
  /\ nextId <= MaxInv
  /\ nextId' = nextId + 1
  /\ UNCHANGED <<maxResults, now, failures, searchHistory, call, ui>>
  /\ IF CacheHit(CachedEntry(cacheKey(q)), category, now)
     THEN ServeFromCache(nextId,
                         [Begin(q, category, CachedEntry(cacheKey(q)))
                            EXCEPT !.enabledModules = enabledModules],
                         CachedPayload(cache[cacheKey(q)]))
     ELSE RunPipeline(nextId,
                      [Begin(q, category, CachedEntry(cacheKey(q)))
                         EXCEPT !.enabledModules = enabledModules],
                      buildExclusionSets(chats, users, ME),
                      runClientSearch(chats, users, ToLowerCase(Queries[q].trimmed), ME),
                      category)

\* The dispatch as index.jsx makes it, with every module enabled
Dispatch(q, category) == DispatchWith(q, category, EnabledModules)

\* Settled without the continuation: the calls settle and Promise.all never
\* resolves
Settled_NoContinuation(i, mod, status, resp) ==
  /\ UNCHANGED <<abortController, maxResults, nextId, now, searchHistory, call, ui>>
  /\ failures' = IF status = "failed" THEN failures + 1 ELSE failures
  /\ inv' = [inv EXCEPT ![i].calls[mod] = status, ![i].resp[mod] = resp]
  /\ UNCHANGED <<results, isLoading, error, cache, chats, users, resultsBy>>

\* Settled without the join: the continuation runs at the first call that settles
Settled_First(i, mod, status, resp) ==
  /\ UNCHANGED <<abortController, maxResults, nextId, now, searchHistory, call, ui>>
  /\ failures' = IF status = "failed" THEN failures + 1 ELSE failures
  /\ Completion(i, [inv[i] EXCEPT !.calls[mod] = status, !.resp[mod] = resp],
                inv, results, resultsBy)

\* How a pending call of invocation i settles: resolved with an answer of
\* the module, rejected with an error, or rejected with an AbortError when
\* the signal is aborted.  The continuation of Promise.all runs in the same
\* step when the call was the last one pending.
Settled(i, mod, status, resp) ==
  /\ UNCHANGED <<abortController, maxResults, nextId, now, searchHistory, call, ui>>
  /\ failures' = IF status = "failed" THEN failures + 1 ELSE failures
  /\ IF \E m \in ModuleApis \ {mod} : inv[i].calls[m] = "pending"
     THEN /\ inv' = [inv EXCEPT ![i].calls[mod] = status, ![i].resp[mod] = resp]
          /\ UNCHANGED <<results, isLoading, error, cache, chats, users, resultsBy>>
     ELSE Completion(i, [inv[i] EXCEPT !.calls[mod] = status, !.resp[mod] = resp],
                     inv, results, resultsBy)

ResolveCall(i, mod) ==
  /\ inv[i].pc = "awaiting"
  /\ inv[i].calls[mod] = "pending"
  /\ ~inv[i].aborted
  /\ \E rawList \in ServerAnswers(mod, inv[i].q) :
       Settled(i, mod, "ok",
               ThenHandler(mod, rawList, ME, inv[i].existingChatIds,
                           inv[i].existingUserIds))

\* FailCall without the .catch of the module promise: Promise.all rejects
\* and the invocation is rejected
FailCall_Rejects(i, mod) ==
  /\ inv[i].pc = "awaiting"
  /\ inv[i].calls[mod] = "pending"
  /\ ~inv[i].aborted
  /\ failures < MaxFailures
  /\ failures' = failures + 1
  /\ inv' = [inv EXCEPT ![i] = [Gone([inv[i] EXCEPT !.calls[mod] = "failed"])
                                  EXCEPT !.outcome = "rejected"]]
  /\ isLoading' = FALSE
  /\ error' = "Search failed"
  /\ UNCHANGED <<results, resultsBy, cache, abortController, chats, users,
                 maxResults, nextId, now, searchHistory, call, ui>>

FailCall(i, mod) ==
  /\ inv[i].pc = "awaiting"
  /\ inv[i].calls[mod] = "pending"
  /\ ~inv[i].aborted
  /\ failures < MaxFailures
  /\ Settled(i, mod, "failed", <<>>)

AbortCall(i, mod) ==
  /\ inv[i].pc = "awaiting"
  /\ inv[i].calls[mod] = "pending"
  /\ inv[i].aborted
  /\ Settled(i, mod, "aborted", <<>>)

\* A sweep that empties the cache as soon as one entry has expired
clearExpiredCache_DropsAll ==
  /\ \E k \in DOMAIN cache : now - cache[k].timestamp >= CACHE_TIMEOUT_MS
  /\ cache' = [k \in {} |-> cache[k]]
  /\ UNCHANGED <<results, isLoading, error, abortController, chats, users,
                 maxResults, inv, nextId, now, resultsBy, failures, searchHistory, call, ui>>

\* The sweep the hook dispatches from its interval timer
clearExpiredCache ==
  /\ cache' = [k \in {k \in DOMAIN cache : now - cache[k].timestamp < CACHE_TIMEOUT_MS}
                 |-> cache[k]]
  /\ cache' # cache
  /\ UNCHANGED <<results, isLoading, error, abortController, chats, users,
                 maxResults, inv, nextId, now, resultsBy, failures, searchHistory, call, ui>>

\* Time passes
Tick ==
  /\ now < MaxTicks * SWEEP_INTERVAL_MS
  /\ now' = now + SWEEP_INTERVAL_MS
  /\ UNCHANGED <<results, isLoading, error, cache, abortController, chats, users,
                 maxResults, inv, nextId, resultsBy, failures, searchHistory, call, ui>>

Next ==
  \/ \E q \in KeywordQueries, c \in Categories : Dispatch(q, c)
  \/ \E i \in Invocations, m \in ModuleApis : ResolveCall(i, m)
  \/ \E i \in Invocations, m \in ModuleApis : FailCall(i, m)
  \/ \E i \in Invocations, m \in ModuleApis : AbortCall(i, m)

\* The searches of one cache window: no time passes, no cap is configured
Spec == Init /\ [][Next]_vars

\* The same with the clock and the sweep, for the searches of one query
NextTTL ==
  \/ \E c \in Categories : Dispatch("ali", c)
  \/ \E i \in Invocations, m \in ModuleApis : ResolveCall(i, m)
  \/ \E i \in Invocations, m \in ModuleApis : AbortCall(i, m)
  \/ clearExpiredCache
  \/ Tick

SpecTTL == Init /\ [][NextTTL]_vars

\* The same as Spec with the maxResults option set or not, for two invocations
InitCap ==
  /\ results = <<>>
  /\ isLoading = FALSE
  /\ error = "null"
  /\ cache = <<>>
  /\ abortController = 0
  /\ chats = <<Item("c1"), Item("c2")>>
  /\ users = <<Item("u1"), Item("u2")>>
  /\ maxResults \in MaxResultsOptions
  /\ inv = [i \in Invocations |-> IdleInv]
  /\ nextId = 1
  /\ now = 0
  /\ resultsBy = 0
  /\ failures = 0
  /\ searchHistory = <<>>
  /\ call = NoCall
  /\ InitUI

\* The same as SpecCap over a local dataset around the threshold of the
\* sparse-result heuristic
BulkSizes == {14, 15}

InitSparse ==
  /\ results = <<>>
  /\ isLoading = FALSE
  /\ error = "null"
  /\ cache = <<>>
  /\ abortController = 0
  /\ \E n \in BulkSizes : chats = [k \in 1..n |-> Item(BulkChatHandles[k])]
  /\ \E n \in BulkSizes : users = [k \in 1..n |-> Item(BulkUserHandles[k])]
  /\ maxResults \in MaxResultsOptions
  /\ inv = [i \in Invocations |-> IdleInv]
  /\ nextId = 1
  /\ now = 0
  /\ resultsBy = 0
  /\ failures = 0
  /\ searchHistory = <<>>
  /\ call = NoCall
  /\ InitUI

NextCap ==
  \/ \E q \in KeywordQueries, c \in Categories : nextId < MaxInv /\ Dispatch(q, c)
  \/ \E i \in Invocations, m \in ModuleApis : ResolveCall(i, m)
  \/ \E i \in Invocations, m \in ModuleApis : FailCall(i, m)
  \/ \E i \in Invocations, m \in ModuleApis : AbortCall(i, m)

SpecCap == InitCap /\ [][NextCap]_vars

SpecSparse == InitSparse /\ [][NextCap]_vars

\* Two invocations, of either query, with the clock and the sweep
NextSweep ==
  \/ \E q \in KeywordQueries : nextId < MaxInv /\ Dispatch(q, "users")
  \/ \E i \in Invocations, m \in ModuleApis : ResolveCall(i, m)
  \/ clearExpiredCache
  \/ Tick

SpecSweep == Init /\ [][NextSweep]_vars

\* Two invocations of one query under every category filter and several
\* enabled-module lists
EnabledOptions ==
  {EnabledModules, EnabledModules \ {"users"}, {"users", "chats"}, {}}

NextModules ==
  \/ \E c \in Categories \cup {"all", "channels"}, en \in EnabledOptions :
        nextId < MaxInv /\ DispatchWith("ali", c, en)
  \/ \E i \in Invocations, m \in ModuleApis : ResolveCall(i, m)
  \/ \E i \in Invocations, m \in ModuleApis : AbortCall(i, m)

SpecModules == Init /\ [][NextModules]_vars

\* ------------------------------------------------------------------------
\* Properties
\* ------------------------------------------------------------------------
Started == 1..(nextId - 1)

\* The step is the dispatch of an invocation / a dispatch served from the cache
IsDispatch == nextId' = nextId + 1
IsCacheHit == IsDispatch /\ inv'[nextId].outcome = "cache"

\* C1: once a newer invocation is dispatched, results is never assigned by an
\* older one: every assignment of results is made by the invocation
\* dispatched last.
C1_OnlyNewestAssignsResults ==
  [][(results' # results \/ resultsBy' # resultsBy) => resultsBy' = nextId' - 1]_vars

\* C2: no invocation is still awaiting its remote calls with a live signal
\* once a newer invocation has been dispatched.
C2_NewerInvocationAbortsOlder ==
  \A i \in Started : (inv[i].pc = "awaiting" /\ i < nextId - 1) => inv[i].aborted

\* C3: an invocation whose signal was aborted while it awaited its remote
\* calls ends with the aborted outcome.
C3_AbortedEndsAborted ==
  \A i \in Started :
    (inv[i].pc = "done" /\ inv[i].abortedAwaiting) => inv[i].outcome = "aborted"

\* C4: no invocation whose signal was aborted while it awaited its remote
\* calls writes a cache entry.
C4_AbortedNeverWritesCache ==
  \A i \in Started : inv[i].wroteCache => ~inv[i].abortedAwaiting

\* C5: when an invocation for (q, c) starts less than the TTL after an
\* invocation for (q, c) returned its final list, it is served from the
\* cache (it calls no module) and returns that list.
C5_SecondServedFromCache ==
  [][IsDispatch =>
       \A i \in Started :
         ( /\ inv[i].outcome = "final"
           /\ inv[i].q = inv'[nextId].q
           /\ inv[i].cat = inv'[nextId].cat
           /\ now - inv[i].doneAt < CACHE_TIMEOUT_MS )
         => ( /\ inv'[nextId].outcome = "cache"
              /\ inv'[nextId].called = {}
              /\ results' = inv[i].ret )]_vars

\* C6: a cache write never replaces or removes the entry another category
\* stored for the same query.
C6_CategoriesCoexist ==
  [][\A k \in DOMAIN cache :
       /\ k \in DOMAIN cache'
       /\ cache'[k] # cache[k] => cache'[k].activeCategory = cache[k].activeCategory]_vars

\* C7: an invocation is served from the cache exactly when the store holds
\* an entry for its key with its category and an age below the TTL, and it
\* then returns that entry's list; otherwise it runs the pipeline (it
\* publishes the local results and awaits its remote calls).
C7_CacheServedIffLiveEntry ==
  [][IsDispatch =>
       LET j == inv'[nextId]
           key == ToLowerCase(Queries[j.q].trimmed)
           live == /\ key \in DOMAIN cache
                   /\ cache[key].activeCategory = j.cat
                   /\ now - cache[key].timestamp < CACHE_TIMEOUT_MS
       IN  /\ (j.outcome = "cache") <=> live
           /\ live => results' = cache[key].results
           /\ ~live => /\ j.pc = "awaiting"
                       /\ j.partials = 1
                       /\ j.called # {}
                       /\ results' = j.clientResults]_vars

\* Witness of C7: one invocation was served from the cache and another one,
\* finding the entry of its category expired, is running the pipeline.
C7_Witness ==
  \E i, j \in Started :
    /\ inv[i].outcome = "cache"
    /\ inv[j].pc = "awaiting"
    /\ inv[j].cached.present
    /\ inv[j].cached.activeCategory = inv[j].cat
    /\ inv[j].startedAt - inv[j].cached.timestamp >= CACHE_TIMEOUT_MS

\* What a dispatch served from the cache leaves alone
CacheHitSkipsPipeline ==
  /\ results' = cache[ToLowerCase(Queries[inv'[nextId].q].trimmed)].results
  /\ isLoading' = FALSE
  /\ inv'[nextId].partials = 0
  /\ inv'[nextId].called = {}
  /\ \A j \in Invocations \ {nextId} : inv'[j] = inv[j]
  /\ UNCHANGED <<cache, chats, users, abortController>>

\* C8 as stated: a dispatch served from the cache changes results and
\* isLoading only (error included among what it leaves alone).
C8_OnlyResultsAndLoadingChange ==
  [][IsCacheHit => (CacheHitSkipsPipeline /\ error' = error)]_vars

\* C8: a dispatch served from the cache publishes no partial update, calls no
\* module, leaves the local dataset, the cache and the other invocations
\* alone; results becomes the cached list, isLoading is cleared and error is
\* reset to null.
C8_CacheHitFrame ==
  [][IsCacheHit => (CacheHitSkipsPipeline /\ error' = "null")]_vars

\* Witness of C8: an invocation was served from the cache after another one
\* was rejected, and its list is displayed.
C8_Witness ==
  \E i, j \in Started :
    /\ i < j
    /\ inv[i].outcome = "rejected"
    /\ inv[j].outcome = "cache"
    /\ resultsBy = j
    /\ results # <<>>

\* No remote-origin item of the list has the dedup key of a local-origin item
NoLocalRemoteCollision(list) ==
  \A i, j \in 1..Len(list) :
    (list[i]._source = "client" /\ list[j]._source # "client")
      => getDefaultDedupKey(list[i], 1000 + i) # getDefaultDedupKey(list[j], 2000 + j)

\* C9: in the final list of every cache-miss invocation no remote-origin
\* item shares its dedup key with a local-origin item.
C9_NoRemoteDuplicateOfLocal ==
  \A i \in Started : inv[i].outcome = "final" => NoLocalRemoteCollision(inv[i].ret)

\* Witness of C9: a final list with local and remote items, computed from a
\* users answer that held a record with the key of a local person.
C9_Witness ==
  \E i \in Started :
    /\ inv[i].outcome = "final"
    /\ inv[i].calls["users"] = "ok"
    /\ \E a, b \in 1..Len(inv[i].ret) :
         /\ inv[i].ret[a]._source = "client"
         /\ getDefaultDedupKey(inv[i].ret[a], a) = getDefaultDedupKey(Item("su3"), 0)
         /\ inv[i].ret[b]._source = "server"

\* The items after the n first are remote, pairwise distinct in dedup key
\* and in non-increasing score order
RemoteTail(F, n) ==
  /\ \A j \in (n + 1)..Len(F) : F[j]._source # "client"
  /\ \A j, k \in (n + 1)..Len(F) :
       j < k => /\ F[j]._score >= F[k]._score
                /\ getDefaultDedupKey(F[j], j) # getDefaultDedupKey(F[k], k)

\* C10 as stated: every final list starts with all the local-stage results.
C10_LocalResultsAlwaysKept ==
  \A i \in Started :
    inv[i].outcome = "final" =>
      LET L == inv[i].clientResults
          F == inv[i].ret
      IN  /\ Len(F) >= Len(L)
          /\ SubSeq(F, 1, Len(L)) = L
          /\ RemoteTail(F, Len(L))

\* C10: every final list is the local-stage results in their order followed
\* by the remote items, pairwise distinct in dedup key and in non-increasing
\* score order, cut to its first maxResults items when the option is set.
C10_LocalFirstThenRankedRemote ==
  \A i \in Started :
    inv[i].outcome = "final" =>
      LET L == inv[i].clientResults
          F == inv[i].ret
      IN  IF maxResults # 0 /\ Len(L) >= maxResults
          THEN F = Prefix(L, maxResults)
          ELSE /\ Len(F) >= Len(L)
               /\ SubSeq(F, 1, Len(L)) = L
               /\ maxResults # 0 => Len(F) <= maxResults
               /\ RemoteTail(F, Len(L))

\* Witness of C10: a final list, not cut, with the local results and at
\* least two remote items.
C10_Witness ==
  \E i \in Started :
    /\ inv[i].outcome = "final"
    /\ maxResults = 0
    /\ inv[i].clientResults # <<>>
    /\ Len(inv[i].ret) >= Len(inv[i].clientResults) + 2

\* Invocation i leaves await Promise.all in this step
Completes(i) == inv[i].pc = "awaiting" /\ inv'[i].pc = "done"

\* The call of invocation i that settles last
LastCall(i) == CHOOSE m \in ModuleApis : inv[i].calls[m] = "pending"

\* What the call that settles last may contribute
LastResponses(i) ==
  IF inv'[i].calls[LastCall(i)] = "ok"
  THEN {ThenHandler(LastCall(i), r, ME, inv[i].existingChatIds, inv[i].existingUserIds) :
          r \in ServerAnswers(LastCall(i), inv[i].q)}
  ELSE {<<>>}

\* Invocation i is fulfilled with the merge of its local results and the
\* responses full, where the failed calls are empty
FulfilledWith(i, full) ==
  /\ \A m \in ModuleApis : inv'[i].calls[m] = "failed" => full[m] = <<>>
  /\ ~RankThrows(RawServer(full), Queries[inv[i].q].keywords) =>
       /\ inv'[i].outcome = "final"
       /\ inv'[i].ret = CapResults(MergeResults(inv[i].clientResults,
                                                rankResults(RawServer(full),
                                                            Queries[inv[i].q].keywords,
                                                            Queries[inv[i].q].phrase)),
                                   maxResults)
       /\ results' = inv'[i].ret
       /\ error' = error

\* C11: an invocation some (or all) of whose calls failed is fulfilled, not
\* rejected, when the ranking of the other responses does not throw: each
\* failed call contributes the empty list, the final list is the merge of
\* the local results with the responses of the calls that succeeded, and
\* error is left as it was.
C11_FailedCallsAreIsolated ==
  [][\A i \in Invocations :
       (Completes(i) /\ \E m \in ModuleApis : inv'[i].calls[m] = "failed")
         => \E r \in LastResponses(i) :
              FulfilledWith(i, [inv[i].resp EXCEPT ![LastCall(i)] = r])]_vars

\* Witness of C11: an invocation that called two modules, both of which
\* failed, is fulfilled with its local results while error is null.
C11_Witness ==
  \E i \in Started :
    /\ inv[i].outcome = "final"
    /\ inv[i].called = {"globalsearch", "users"}
    /\ \A m \in inv[i].called : inv[i].calls[m] = "failed"
    /\ inv[i].ret = CapResults(inv[i].clientResults, maxResults)
    /\ inv[i].ret # <<>>
    /\ error = "null"

\* C12: an invocation returns its final result only once every call it
\* issued has settled, and as long as it awaits, what it has published is
\* its local results, with no remote-origin item.
C12_FinalAfterAllSettled ==
  \A i \in Started :
    /\ inv[i].outcome = "final" =>
         \A m \in inv[i].called : inv[i].calls[m] \in {"ok", "failed", "aborted"}
    /\ (inv[i].pc = "awaiting" /\ resultsBy = i) =>
         /\ results = inv[i].clientResults
         /\ \A k \in 1..Len(results) : results[k]._source = "client"

\* Witness of C12: a response with records has arrived for an invocation
\* that still awaits another call, and the store shows its local results.
C12_Witness ==
  \E i \in Started :
    /\ inv[i].pc = "awaiting"
    /\ resultsBy = i
    /\ \E m \in inv[i].called : inv[i].calls[m] = "ok" /\ inv[i].resp[m] # <<>>
    /\ \E m \in inv[i].called : inv[i].calls[m] = "pending"
    /\ results = inv[i].clientResults

ChatLikeMatches(i) ==
  Cardinality({k \in 1..Len(inv'[i].clientResults) :
                 IdTruthy(Raw[inv'[i].clientResults[k].raw].chatid)})

PersonMatches(i) ==
  Cardinality({k \in 1..Len(inv'[i].clientResults) :
                 ~IdTruthy(Raw[inv'[i].clientResults[k].raw].chatid)})

SparseDispatch ==
  /\ IsDispatch
  /\ inv'[nextId].outcome # "cache"
  /\ ~ClientSearchThrows(chats)
  /\ (ChatLikeMatches(nextId) < 15 \/ PersonMatches(nextId) < 15)

\* C15: when an invocation fetches remotely, the API of a module is called
\* exactly when the module is in the enabled list the caller passed, the
\* active category is "all" or the module, and the module has an API; the
\* global call is issued under every category.
C15_ModuleCalledIff ==
  [][SparseDispatch =>
       /\ \A m \in Range(PromiseOrder) \ {"globalsearch"} :
            (m \in inv'[nextId].called) <=>
               /\ m \in inv'[nextId].enabledModules
               /\ inv'[nextId].cat = "all" \/ inv'[nextId].cat = m
               /\ m \in ModuleApis
       /\ "globalsearch" \in inv'[nextId].called
       /\ \A m \in ModuleApis :
            inv'[nextId].calls[m] = IF m \in inv'[nextId].called THEN "pending" ELSE "none"]_vars

\* Witness of C15: under the category "all" and with the users module not
\* enabled, the global, channels and messages calls are pending and the users
\* API is not called.
C15_Witness ==
  \E i \in Started :
    /\ inv[i].cat = "all"
    /\ inv[i].enabledModules = EnabledModules \ {"users"}
    /\ inv[i].called = {"globalsearch", "channels", "messages"}
    /\ \A m \in inv[i].called : inv[i].calls[m] = "pending"
    /\ inv[i].calls["users"] = "none"

\* The record behind item it is in the exclusion set of its kind
Excluded(it, existingChatIds, existingUserIds) ==
  IF IdTruthy(Raw[it.raw].chatid)
  THEN String(Raw[it.raw].chatid) \in existingChatIds
  ELSE IdTruthy(Raw[it.raw].zuid) /\ String(Raw[it.raw].zuid) \in existingUserIds

\* C16: no record that a remote call of an invocation hands to the merge,
\* the global call included, has its identifier in the exclusion set of its
\* kind that the invocation built when it started.
C16_RemoteRecordsNotExcluded ==
  \A i \in Started : \A m \in ModuleApis :
    inv[i].pc = "awaiting" =>
      \A k \in 1..Len(inv[i].resp[m]) :
        ~Excluded(inv[i].resp[m][k], inv[i].existingChatIds, inv[i].existingUserIds)

\* C17: whatever the invocations and the order of their responses, the local
\* chat list never holds two entries with the same chat id and the local user
\* list never holds two entries with the same user id.
C17_LocalDatasetHasNoDuplicates ==
  /\ \A k, l \in 1..Len(chats) :
       (k # l /\ IdTruthy(Raw[chats[k].raw].chatid)) =>
          String(Raw[chats[k].raw].chatid) # String(Raw[chats[l].raw].chatid)
  /\ \A k, l \in 1..Len(users) :
       (k # l /\ IdTruthy(Raw[users[k].raw].zuid)) =>
          String(Raw[users[k].raw].zuid) # String(Raw[users[l].raw].zuid)

\* C18: no step of an invocation changes the chats and users collections the
\* caller passed in.
C18_CallerDataUnchanged ==
  [][chats' = chats /\ users' = users]_vars

\* The ranking throws on whatever the last call of invocation i may answer
RankMustThrow(i) ==
  \A r \in LastResponses(i) :
    RankThrows(RawServer([inv[i].resp EXCEPT ![LastCall(i)] = r]), Queries[inv[i].q].keywords)

\* C19: an invocation whose local stage throws, or whose ranking throws, is
\* rejected; the step that rejects an invocation leaves isLoading false and
\* error set, and does not touch results.
C19_PipelineFailureRejects ==
  [][/\ (IsDispatch /\ ~IsCacheHit /\ ClientSearchThrows(chats)) =>
          inv'[nextId].outcome = "rejected"
     /\ \A i \in Invocations :
          /\ (Completes(i) /\ RankMustThrow(i)) => inv'[i].outcome = "rejected"
          /\ (inv[i].outcome # "rejected" /\ inv'[i].outcome = "rejected") =>
               /\ isLoading' = FALSE
               /\ error' # "null"
               /\ results' = results]_vars

\* Witness of C19: an invocation was rejected after it published its local
\* results, and the store still shows them, with the error and no loading.
C19_Witness ==
  \E i \in Started :
    /\ inv[i].outcome = "rejected"
    /\ inv[i].partials = 1
    /\ resultsBy = i
    /\ results # <<>>
    /\ ~isLoading
    /\ error # "null"

\* The step removes cache entries, which only the sweep does
IsSweep ==
  /\ DOMAIN cache' # DOMAIN cache
  /\ DOMAIN cache' \subseteq DOMAIN cache

\* C20: a sweep removes every cache entry whose age is at least the TTL,
\* keeps every younger entry as it is, and changes no other field of the
\* store.
C20_SweepRemovesExactlyExpired ==
  [][IsSweep =>
       /\ \A k \in DOMAIN cache :
            IF now - cache[k].timestamp >= CACHE_TIMEOUT_MS
            THEN k \notin DOMAIN cache'
            ELSE k \in DOMAIN cache' /\ cache'[k] = cache[k]
       /\ UNCHANGED <<results, isLoading, error>>]_vars

\* Witness of C20: at the TTL after the entry of "al" was written, a sweep
\* has removed it and kept the entry of "ali", written half a TTL later.
C20_Witness ==
  /\ now = CACHE_TIMEOUT_MS
  /\ DOMAIN cache = {cacheKey("ali")}
  /\ cache[cacheKey("ali")].timestamp = SWEEP_INTERVAL_MS
  /\ \E i \in Started : inv[i].q = "al" /\ inv[i].wroteCache /\ inv[i].doneAt = 0

\* ------------------------------------------------------------------------
\* The search history

MAX_HISTORY == 20

\* A history of MAX_HISTORY distinct queries
FullHistory ==
  [n \in 1..MAX_HISTORY |->
     IF n <= 16 THEN <<"q", BulkLetters[n]>> ELSE <<"r", BulkLetters[n - 16]>>]

\* What the callers hand to addToHistory: the query of the input box or the
\* _searchQuery of the selected item
HistoryPayloads ==
  { <<"n", "e", "w">>, <<" ", "n", "e", "w", "\t">>, <<"a", " ", "b">>,
    <<>>, <<" ", "\n">>, Undef,
    FullHistory[1], FullHistory[MAX_HISTORY], <<" ">> \o FullHistory[MAX_HISTORY - 1] }

\* x => x !== q
Without(h, q) == SelectSeq(h, LAMBDA x : x # q)

\* addToHistory without the filter on the present entries
addToHistory_NoFilter(payload) ==
  /\ call' = [fn |-> "addToHistory", args |-> <<payload>>, ret |-> <<>>]
  /\ searchHistory' =
       IF payload = Undef \/ ~Truthy(Trim(payload)) THEN searchHistory
       ELSE Prefix(<<Trim(payload)>> \o searchHistory, MAX_HISTORY)
  /\ UNCHANGED <<results, isLoading, error, cache, abortController, chats, users,
                 maxResults, inv, nextId, now, resultsBy, failures, ui>>

\* The addToHistory reducer
addToHistory(payload) ==
  /\ call' = [fn |-> "addToHistory", args |-> <<payload>>, ret |-> <<>>]
  /\ searchHistory' =
       IF payload = Undef \/ ~Truthy(Trim(payload)) THEN searchHistory
       ELSE Prefix(<<Trim(payload)>> \o Without(searchHistory, Trim(payload)), MAX_HISTORY)
  /\ UNCHANGED <<results, isLoading, error, cache, abortController, chats, users,
                 maxResults, inv, nextId, now, resultsBy, failures, ui>>

\* The clearHistory reducer
clearHistory ==
  /\ call' = [fn |-> "clearHistory", args |-> <<>>, ret |-> <<>>]
  /\ searchHistory' = <<>>
  /\ UNCHANGED <<results, isLoading, error, cache, abortController, chats, users,
                 maxResults, inv, nextId, now, resultsBy, failures, ui>>

\* loadHistory(): what localStorage held, an empty, a nearly full or a full list
InitHistory ==
  /\ results = <<>>
  /\ isLoading = FALSE
  /\ error = "null"
  /\ cache = <<>>
  /\ abortController = 0
  /\ chats = <<>>
  /\ users = <<>>
  /\ maxResults = 0
  /\ inv = [i \in Invocations |-> IdleInv]
  /\ nextId = 1
  /\ now = 0
  /\ resultsBy = 0
  /\ failures = 0
  /\ searchHistory \in {<<>>, FullHistory, Prefix(FullHistory, MAX_HISTORY - 1)}
  /\ call = NoCall
  /\ InitUI

NextHistory ==
  \/ \E payload \in HistoryPayloads : addToHistory(payload)
  \/ clearHistory

SpecHistory == InitHistory /\ [][NextHistory]_vars

\* The history is a list of at most MAX_HISTORY distinct non-blank strings
HistoryOK(h) ==
  /\ Len(h) <= MAX_HISTORY
  /\ \A k, l \in 1..Len(h) : k # l => h[k] # h[l]
  /\ \A k \in 1..Len(h) : h[k] # Undef /\ Trim(h[k]) # <<>>

\* The query the step's addToHistory accepted, if it accepted one
Accepted(q) ==
  /\ call'.fn = "addToHistory"
  /\ call'.args[1] # Undef
  /\ q = Trim(call'.args[1])
  /\ q # <<>>

\* C21: addToHistory and clearHistory keep the history a list of at most 20
\* distinct non-blank strings; an accepted query is first in the list
\* afterwards, and when it was already present the list does not grow.
C21_HistoryBoundedDistinctRecentFirst ==
  [][/\ HistoryOK(searchHistory) => HistoryOK(searchHistory')
     /\ \A q \in {Trim(p) : p \in HistoryPayloads} :
          Accepted(q) =>
            /\ searchHistory'[1] = q
            /\ q \in Range(searchHistory) => Len(searchHistory') = Len(searchHistory)
            /\ Without(searchHistory', q) = Prefix(Without(searchHistory, q), MAX_HISTORY - 1)]_vars

\* Witness of C21: the full history after a new query was added and then
\* its oldest remaining entry added again: still 20 entries, that entry first.
C21_Witness ==
  /\ Len(searchHistory) = MAX_HISTORY
  /\ call.fn = "addToHistory"
  /\ searchHistory[1] = FullHistory[MAX_HISTORY - 1]
  /\ searchHistory[2] = <<"n", "e", "w">>
  /\ HistoryOK(searchHistory)

\* ------------------------------------------------------------------------
\* The helpers of the slice and of the scorer, called on their own

\* loggedUser?.Zuid: the logged-in user, another participant, a number, or none
LoggedInZuids == {ME, StrId(<<"2">>), NumId(<<"9">>), UndefId}

\* chat.title
ChatTitles == {<<"A", "l", "i", "c", "e">>, <<"B", "o", "b">>, <<"E", "v", "e">>, Undef}

\* The arguments of a call that has not run yet
Pending(args) == [fn |-> "", args |-> args, ret |-> <<>>]

\* The store of initialState, with the arguments of the call to make
InitCall(argSets) ==
  /\ results = <<>>
  /\ isLoading = FALSE
  /\ error = "null"
  /\ cache = <<>>
  /\ abortController = 0
  /\ chats = <<>>
  /\ users = <<>>
  /\ maxResults = 0
  /\ inv = [i \in Invocations |-> IdleInv]
  /\ nextId = 1
  /\ now = 0
  /\ resultsBy = 0
  /\ failures = 0
  /\ searchHistory = <<>>
  /\ call \in {Pending(a) : a \in argSets}
  /\ InitUI

InitResolve == InitCall((DOMAIN Summaries) \X LoggedInZuids \X ChatTitles)

CallGetOtherUserId ==
  /\ call.fn = ""
  /\ call' = [fn |-> "getOtherUserId",
              args |-> call.args,
              ret |-> getOtherUserId(call.args[1], call.args[2], call.args[3])]
  /\ UNCHANGED <<results, isLoading, error, cache, abortController, chats, users,
                 maxResults, inv, nextId, now, resultsBy, failures, searchHistory, ui>>

SpecResolve == InitResolve /\ [][CallGetOtherUserId]_vars

\* The identifiers of the participants ps that satisfy the strategy
DifferingIds(ps, loggedInZuid) ==
  {ps[k].zuid : k \in {j \in 1..Len(ps) :
                         IdTruthy(ps[j].zuid) /\ String(ps[j].zuid) # String(loggedInZuid)}}

TitleIds(ps, chatTitle) ==
  {ps[k].zuid : k \in {j \in 1..Len(ps) : IdTruthy(ps[j].zuid) /\ ps[j].dname = chatTitle}}

\* What the strategies, in their order, allow for decoded participants ps
Resolutions(ps, loggedInZuid, chatTitle) ==
  IF IdTruthy(loggedInZuid) /\ DifferingIds(ps, loggedInZuid) # {}
  THEN DifferingIds(ps, loggedInZuid)
  ELSE IF Truthy(chatTitle) /\ TitleIds(ps, chatTitle) # {}
  THEN TitleIds(ps, chatTitle)
  ELSE IF Len(ps) = 1 /\ IdTruthy(ps[1].zuid) THEN {ps[1].zuid}
  ELSE {UndefId}

\* C22: other-party resolution returns the identifier of a participant whose
\* identifier differs from the logged-in one when one is supplied and such a
\* participant exists, otherwise of the participant named as the title,
\* otherwise of the only participant, otherwise none.
C22_StrategiesInOrder ==
  (call.fn = "getOtherUserId" /\ Participants(call.args[1]).ok) =>
     call.ret \in Resolutions(Participants(call.args[1]).parts, call.args[2], call.args[3])

\* The local stage called on its own: the exclusion sets and the local search
\* of executeSearch over a local dataset of at most two chats

LocalChatHandles == {"c1", "c2", "c3", "c7", "c8", "c9", "ct", "cb", "cg"}

LocalChatLists ==
  {<<>>} \cup {<<Item(h)>> : h \in LocalChatHandles}
         \cup {<<Item(h[1]), Item(h[2])>> :
                 h \in {x \in LocalChatHandles \X LocalChatHandles : x[1] # x[2]}}

LocalUserLists == {<<>>, <<Item("u1"), Item("u2")>>}

InitLocal ==
  InitCall(LocalChatLists \X LocalUserLists \X KeywordQueries \X {ME, UndefId})

\* Steps 1 and 2 of executeSearch on the arguments
CallLocalStage ==
  /\ call.fn = ""
  /\ call' = [fn |-> "runClientSearch",
              args |-> call.args,
              ret |-> [sets |-> buildExclusionSets(call.args[1], call.args[2], call.args[4]),
                       client |-> runClientSearch(call.args[1], call.args[2],
                                                  ToLowerCase(Queries[call.args[3]].trimmed),
                                                  call.args[4])]]
  /\ UNCHANGED <<results, isLoading, error, cache, abortController, chats, users,
                 maxResults, inv, nextId, now, resultsBy, failures, searchHistory, ui>>

SpecLocal == InitLocal /\ [][CallLocalStage]_vars

\* The local stage has been called
LocalStageCalled == call.fn = "runClientSearch"

\* The one-to-one chats of list cs whose participant data does not decode to a list
Undecodable(cs) ==
  {k \in 1..Len(cs) : /\ String(Raw[cs[k].raw].chat_type) = <<"1">>
                      /\ ~Participants(Raw[cs[k].raw].summary).ok}

\* C23: participant data that does not decode to a list leaves the other
\* party unresolved; the local item of such a one-to-one chat carries the
\* chat's own id, and the chat adds nothing to the person-exclusion set.
C23_UndecodableFallsBackToChatId ==
  LocalStageCalled =>
    /\ \A k \in Undecodable(call.args[1]) :
         /\ getOtherUserId(Raw[call.args[1][k].raw].summary, call.args[4],
                           call.args[1][k].title) = UndefId
         /\ \A n \in 1..Len(call.ret.client.clientResults) :
              call.ret.client.clientResults[n].raw = call.args[1][k].raw =>
                call.ret.client.clientResults[n].id = Raw[call.args[1][k].raw].chatid
    /\ call.ret.sets.existingUserIds =
         buildExclusionSets(SelectSeq(call.args[1],
                                      LAMBDA c : \A k \in Undecodable(call.args[1]) :
                                                   call.args[1][k] # c),
                            call.args[2], call.args[4]).existingUserIds

\* Witness of C23: the local stage over the chat with undecodable participants
\* and the chat with Alice: the first is found under its chat id, and the
\* person-exclusion set holds Alice only.
C23_Witness ==
  /\ LocalStageCalled
  /\ call.args[1] = <<Item("c7"), Item("c1")>>
  /\ call.args[2] = <<>>
  /\ call.args[4] = ME
  /\ call.ret.sets.existingUserIds = {<<"1">>}
  /\ \E n \in 1..Len(call.ret.client.clientResults) :
       /\ call.ret.client.clientResults[n].raw = "c7"
       /\ call.ret.client.clientResults[n].id = StrId(<<"c", "7">>)

\* The module tag the mapping of the claim gives a conversation type code
TagOfTypeCode(code) ==
  CASE code = <<"8">> -> "channels"
    [] code = <<"1">> -> "users"
    [] code = <<"1", "1">> -> "threads"
    [] code = <<"9">> -> "bots"
    [] OTHER -> ""

\* C24: the local stage tags a chat-like item by its conversation type code,
\* 8 -> channels, 1 -> users, 11 -> threads, 9 -> bots, any other -> empty,
\* and every tag it gives is empty or a module tag of the vocabulary.
C24_ChatTypeTags ==
  LocalStageCalled =>
    \A n \in 1..Len(call.ret.client.clientChats) :
      /\ call.ret.client.clientChats[n]._module =
           TagOfTypeCode(String(Raw[call.ret.client.clientChats[n].raw].chat_type))
      /\ call.ret.client.clientChats[n]._module \in DOMAIN DEFAULT_MODULE_WEIGHTS \cup {""}

\* The item is a one-to-one conversation / a person of the local dataset
IsOneToOne(it) ==
  IdTruthy(Raw[it.raw].chatid) /\ String(Raw[it.raw].chat_type) = <<"1">>

IsPerson(it) == ~IdTruthy(Raw[it.raw].chatid)

\* C25: the local results never hold a one-to-one conversation and a person
\* with the same canonical identifier.
C25_NoPersonTwice ==
  LocalStageCalled =>
    \A a, b \in Range(call.ret.client.clientResults) :
      (IsOneToOne(a) /\ IsPerson(b)) => String(a.id) # String(b.id)

\* Witness of C25: Alice is a local user and the other party (with a numeric
\* id) of a local one-to-one chat, both match the query, and the local
\* results hold the chat and the other matching user only.
C25_Witness ==
  /\ LocalStageCalled
  /\ call.args[1] = <<Item("c3")>>
  /\ call.args[2] = <<Item("u1"), Item("u2")>>
  /\ call.args[3] = "ali"
  /\ Len(call.ret.client.clientResults) = 2
  /\ call.ret.client.clientResults[1].raw = "c3"
  /\ call.ret.client.clientResults[1].id = NumId(<<"1">>)
  /\ call.ret.client.clientResults[2].raw = "u2"

\* detectMatch called on its own

MatchKeywords ==
  { <<"a", "l", "i">>, <<"A", "L", "I">>, <<" ", "a", "l", "i", "\t">>, <<"l", "i">>,
    <<"a", " ", "b">>, <<"b">>, <<"i">>, <<>>, <<" ">>, Undef }

MatchFields ==
  { <<"a", "l", "i">>, <<" ", "A", "L", "I", " ">>, <<"A", "l", "i", "c", "e">>,
    <<"h", "i", " ", "a", "l", "i">>, <<"b", "a", "l", "i">>, <<"m", "a", "l", "i", " ", "b">>,
    <<"a", " ", "b">>, <<"x", " ", "A", " ", "B">>, <<"x", "a", " ", "b">>,
    <<"a", " ", " ", "b">>, <<"b">>, <<>>, <<" ", "\n">>, Undef }

InitMatch == InitCall(MatchKeywords \X MatchFields)

CallDetectMatch ==
  /\ call.fn = ""
  /\ call' = [fn |-> "detectMatch", args |-> call.args,
              ret |-> detectMatch(call.args[1], call.args[2])]
  /\ UNCHANGED <<results, isLoading, error, cache, abortController, chats, users,
                 maxResults, inv, nextId, now, resultsBy, failures, searchHistory, ui>>

SpecMatch == InitMatch /\ [][CallDetectMatch]_vars

\* Operand x compared case-insensitively and trimmed; empty for a missing one
Normal(x) == IF x = Undef THEN <<>> ELSE Trim(ToLowerCase(x))

\* k occurs in f from position i on
OccursAt(f, k, i) ==
  /\ i >= 1
  /\ i + Len(k) - 1 <= Len(f)
  /\ \A j \in 1..Len(k) : f[i + j - 1] = k[j]

\* The class of the claim for a normalized keyword k and field f
ClassOf(k, f) ==
  IF k = <<>> \/ f = <<>> THEN "none"
  ELSE IF f = k THEN "exact"
  ELSE IF OccursAt(f, k, 1) THEN "startsWith"
  ELSE IF \E i \in 1..Len(f) : f[i] = " " /\ OccursAt(f, k, i + 1) THEN "afterSpace"
  ELSE IF \E i \in 1..Len(f) : OccursAt(f, k, i) THEN "middle"
  ELSE "none"

\* C26: detectMatch compares the operands lowercased and trimmed, gives no
\* match when either is empty, and otherwise the first class that applies of
\* exact, startsWith, afterSpace, middle, with the score configured for it;
\* a field equal to the keyword gives exact.
C26_DetectMatchClasses ==
  call.fn = "detectMatch" =>
    /\ call.ret.type = ClassOf(Normal(call.args[1]), Normal(call.args[2]))
    /\ call.ret.score = IF call.ret.type = "none" THEN 0 ELSE MatchScores[call.ret.type]
    /\ (Normal(call.args[1]) = Normal(call.args[2]) /\ Normal(call.args[1]) # <<>>) =>
         call.ret = [type |-> "exact", score |-> MatchScores.exact]

\* Witness of C26: a keyword after a space of the field, in another case and
\* padded, is classed afterSpace.
C26_Witness ==
  /\ call.fn = "detectMatch"
  /\ call.args = << <<" ", "a", "l", "i", "\t">>, <<"h", "i", " ", "a", "l", "i">> >>
  /\ call.ret = [type |-> "afterSpace", score |-> MatchScores.afterSpace]

\* rankResults called on its own, on what the module calls return

\* The module call that returns each record
RankHandles ==
  [ su1 |-> "users", su4 |-> "users", sc2 |-> "channels", sc3 |-> "channels",
    sm1 |-> "messages", g3 |-> "globalsearch", g6 |-> "globalsearch" ]

\* The record as the .then handler of its call hands it to rawServer
RankItem(h) == ThenHandler(RankHandles[h], <<h>>, ME, {}, {})[1]

RankLists ==
  {<<>>} \cup {<<RankItem(a)>> : a \in DOMAIN RankHandles}
         \cup {<<RankItem(h[1]), RankItem(h[2])>> :
                 h \in (DOMAIN RankHandles) \X (DOMAIN RankHandles)}
         \cup {<<RankItem(h[1]), RankItem(h[2]), RankItem(h[3])>> :
                 h \in (DOMAIN RankHandles) \X (DOMAIN RankHandles) \X (DOMAIN RankHandles)}

\* parsedQuery.keywords and parsedQuery.phrase of "al", "ali" and "hi ali"
RankQueries ==
  { [keywords |-> Queries.al.keywords, phrase |-> Queries.al.phrase],
    [keywords |-> Queries.ali.keywords, phrase |-> Queries.ali.phrase],
    [keywords |-> << <<"h", "i">>, <<"a", "l", "i">> >>,
     phrase |-> <<"h", "i", " ", "a", "l", "i">>] }

InitRank == InitCall(RankLists \X RankQueries)

CallRankResults ==
  /\ call.fn = ""
  /\ call' = [fn |-> "rankResults", args |-> call.args,
              ret |-> rankResults(call.args[1], call.args[2].keywords, call.args[2].phrase)]
  /\ UNCHANGED <<results, isLoading, error, cache, abortController, chats, users,
                 maxResults, inv, nextId, now, resultsBy, failures, searchHistory, ui>>

SpecRank == InitRank /\ [][CallRankResults]_vars

\* The texts an item is matched against: the keywords, and the phrase of a
\* multi-word query
Needles(q) ==
  Range(q.keywords) \cup (IF Len(q.keywords) > 1 THEN {q.phrase} ELSE {})

\* The scores of the matches of an item's fields against the query
MatchScoresOf(item, q) ==
  {detectMatch(n, f).score :
     n \in Needles(q), f \in Range(getDefaultResolveFields(item))} \ {0}

MaxOf(S) == CHOOSE x \in S : \A y \in S : y <= x

\* The weight of the item's module, 1 (in hundredths) when it is unknown
WeightOf(item) ==
  IF item._module \in DOMAIN DEFAULT_MODULE_WEIGHTS
  THEN DEFAULT_MODULE_WEIGHTS[item._module] ELSE 100

\* The item without what the scorer attached to it
Unscored(item) == [item EXCEPT !._score = -1, !._matchType = "", !._matchScore = -1]

\* How often item x is in list xs
CountOf(xs, x) == Cardinality({i \in 1..Len(xs) : xs[i] = x})

\* C27: rankResults returns the input items with a match, each as often as
\* the input holds it and none other, scored as the best match score times
\* the module weight (1 for an unknown module), by non-increasing score.
C27_RankDropsScoresSorts ==
  call.fn = "rankResults" =>
    /\ \A x \in Range(call.args[1]) :
         CountOf([i \in 1..Len(call.ret) |-> Unscored(call.ret[i])], x) =
           IF MatchScoresOf(x, call.args[2]) = {} THEN 0 ELSE CountOf(call.args[1], x)
    /\ \A i \in 1..Len(call.ret) :
         /\ Unscored(call.ret[i]) \in Range(call.args[1])
         /\ call.ret[i]._matchScore = MaxOf(MatchScoresOf(Unscored(call.ret[i]), call.args[2]))
         /\ call.ret[i]._score = call.ret[i]._matchScore * WeightOf(call.ret[i])
    /\ \A i, j \in 1..Len(call.ret) : i < j => call.ret[i]._score >= call.ret[j]._score

\* Witness of C27: for "hi ali", a channel without a match, an untagged
\* record equal to the phrase and a user equal to a keyword come back as the
\* user (1.5 x 1.5) before the untagged record (1.5 x 1), the channel dropped.
C27_Witness ==
  /\ call.fn = "rankResults"
  /\ call.args[1] = <<RankItem("sc2"), RankItem("g6"), RankItem("su4")>>
  /\ Len(call.args[2].keywords) = 2
  /\ Len(call.ret) = 2
  /\ call.ret[1].raw = "su4" /\ call.ret[1]._score = 2250
  /\ call.ret[2].raw = "g6" /\ call.ret[2]._score = 1500

\* deduplicateBy called on its own, on scored records in any order

\* Records of which two users share their name, and one has neither id nor name
DedupHandles ==
  [ su4 |-> "users", su5 |-> "users", sc3 |-> "channels", g3 |-> "globalsearch",
    sm2 |-> "messages" ]

\* Final scores of a startsWith match of a message and an exact match of a user
DedupScores == {1000, 2250}

ScoredItems ==
  {[ThenHandler(DedupHandles[h], <<h>>, ME, {}, {})[1] EXCEPT !._score = s] :
     h \in DOMAIN DedupHandles, s \in DedupScores}

DedupLists ==
  {<<>>} \cup {<<a>> : a \in ScoredItems}
         \cup {<<a, b>> : a \in ScoredItems, b \in ScoredItems}
         \cup {<<a, b, c>> : a \in ScoredItems, b \in ScoredItems, c \in ScoredItems}

InitDedup == InitCall({<<items>> : items \in DedupLists})

CallDeduplicateBy ==
  /\ call.fn = ""
  /\ call' = [fn |-> "deduplicateBy", args |-> call.args,
              ret |-> deduplicateBy(call.args[1])]
  /\ UNCHANGED <<results, isLoading, error, cache, abortController, chats, users,
                 maxResults, inv, nextId, now, resultsBy, failures, searchHistory, ui>>

SpecDedup == InitDedup /\ [][CallDeduplicateBy]_vars

\* Position n of list xs is the survivor of its key's group: no item of the
\* group scores higher, and none before it scores as high
Survives(xs, n) ==
  \A m \in 1..Len(xs) :
    getDefaultDedupKey(xs[m], m) = getDefaultDedupKey(xs[n], n) =>
      /\ xs[m]._score <= xs[n]._score
      /\ m < n => xs[m]._score < xs[n]._score

\* C28: deduplicateBy returns, for every key of the input, the one item of
\* the key's group with the highest score (the first of them on equal
\* scores), no two items with the same key, by non-increasing score.
C28_DedupKeepsBestPerKey ==
  call.fn = "deduplicateBy" =>
    /\ \A x \in Range(call.args[1]) \cup Range(call.ret) :
         CountOf(call.ret, x) =
           Cardinality({n \in 1..Len(call.args[1]) :
                          call.args[1][n] = x /\ Survives(call.args[1], n)})
    /\ \A i, j \in 1..Len(call.ret) :
         i # j => getDefaultDedupKey(call.ret[i], i) # getDefaultDedupKey(call.ret[j], j)
    /\ \A i, j \in 1..Len(call.ret) : i < j => call.ret[i]._score >= call.ret[j]._score

\* Witness of C28: of two users with the same name the one scored higher,
\* seen last, survives; it takes the place of its key in the Map, ahead of a
\* channel scored as high.
C28_Witness ==
  /\ call.fn = "deduplicateBy"
  /\ Len(call.args[1]) = 3
  /\ call.args[1][1].raw = "su4" /\ call.args[1][1]._score = 1000
  /\ call.args[1][2].raw = "sc3" /\ call.args[1][2]._score = 2250
  /\ call.args[1][3].raw = "su5" /\ call.args[1][3]._score = 2250
  /\ Len(call.ret) = 2
  /\ call.ret[1].raw = "su5"
  /\ call.ret[2].raw = "sc3"

\* ------------------------------------------------------------------------
\* parseQuery and serializeQuery over raw inputs

\* What the user types: one to three words or tokens, separated by a blank
QueryPieces ==
  { <<"f", "r", "o", "m", ":", "@", "a", "l", "i", "c", "e">>,
    <<"p", "r", "o", "j", "e", "c", "t">>,
    <<"i", "n", "t", "o", ":", "x">>,
    <<"t", "o", ":", "x">>,
    <<"f", "r", "o", "m", ":", "@">>,
    <<"F", "R", "O", "M", ":", "b", "o", "b">>,
    <<"i", "n", ":", "#", "g", "e", "n">>,
    <<"f", "r", "o", "m", ":", "@", "@", "a", "l">>,
    <<"x", ":", "t", "o", ":", "y">> }

RawInputs ==
  {<<>>} \cup QueryPieces
         \cup {a \o <<" ">> \o b : a \in QueryPieces, b \in QueryPieces}
         \cup {a \o <<" ", " ">> \o b \o <<" ">> \o c :
                 a \in QueryPieces, b \in QueryPieces, c \in QueryPieces}

InitParse == InitCall({<<raw>> : raw \in RawInputs})

CallParseQuery ==
  /\ call.fn = ""
  /\ call' = [fn |-> "parseQuery", args |-> call.args, ret |-> parseQuery(call.args[1])]
  /\ UNCHANGED <<results, isLoading, error, cache, abortController, chats, users,
                 maxResults, inv, nextId, now, resultsBy, failures, searchHistory, ui>>

\* serializeQuery on the ParsedQuery just returned
CallSerializeQuery ==
  /\ call.fn = "parseQuery"
  /\ call' = [fn |-> "serializeQuery", args |-> <<call.args[1], call.ret>>,
              ret |-> serializeQuery(call.ret)]
  /\ UNCHANGED <<results, isLoading, error, cache, abortController, chats, users,
                 maxResults, inv, nextId, now, resultsBy, failures, searchHistory, ui>>

\* parseQuery on the string just serialized
CallParseAgain ==
  /\ call.fn = "serializeQuery"
  /\ call' = [fn |-> "parseQuery again", args |-> <<call.args[1], call.args[2], call.ret>>,
              ret |-> parseQuery(call.ret)]
  /\ UNCHANGED <<results, isLoading, error, cache, abortController, chats, users,
                 maxResults, inv, nextId, now, resultsBy, failures, searchHistory, ui>>

NextParse == CallParseQuery \/ CallSerializeQuery \/ CallParseAgain

SpecParse == InitParse /\ [][NextParse]_vars

\* C29: parsing the serialization of a parsed query gives the filters and
\* the keywords of the parsed query.
C29_RoundTripKeepsFiltersAndKeywords ==
  call.fn = "parseQuery again" =>
    /\ call.ret.filters = call.args[2].filters
    /\ call.ret.keywords = call.args[2].keywords


\* The text of s from position p on without the spans TOKEN_RE matches with a
\* recognized key
RECURSIVE Untouched(_, _)
Untouched(s, p) ==
  IF p > Len(s) THEN <<>>
  ELSE IF s[p] \notin WordChars THEN <<s[p]>> \o Untouched(s, p + 1)
  ELSE IF MatchAt(s, RunEnd(s, p))
       THEN (IF ToLowerCase(SubSeq(s, p, RunEnd(s, p))) \in FILTER_TOKENS
             THEN <<>>
             ELSE SubSeq(s, p, ValueEnd(s, RunEnd(s, p) + 2)))
            \o Untouched(s, ValueEnd(s, RunEnd(s, p) + 2) + 1)
       ELSE SubSeq(s, p, RunEnd(s, p)) \o Untouched(s, RunEnd(s, p) + 1)

\* The blank-separated words of a text
WordsOf(s) == IF Trim(s) = <<>> THEN <<>> ELSE SplitWords(Trim(s), <<>>)

\* A word that is, as a whole, a key:value token with a recognized key
IsRecognizedToken(w) ==
  /\ Len(ExecAll(w, 1)) = 1
  /\ ExecAll(w, 1)[1].text = w
  /\ ExecAll(w, 1)[1].key \in FILTER_TOKENS

\* C30: parseQuery removes exactly the key:value substrings with a recognized
\* key and leaves the rest of the text as it was, so that no keyword is a
\* recognized key:value token; 'from:@alice project' gives the keywords
\* ['project'], the filters {from: 'alice'} and isMultiWord false.
C30_RemovesExactlyRecognizedTokens ==
  call.fn = "parseQuery" =>
    /\ call.ret.keywords = WordsOf(Untouched(call.args[1], 1))
    /\ call.ret.trimmed = JoinWith(WordsOf(Untouched(call.args[1], 1)), <<" ">>)
    /\ \A i \in 1..Len(call.ret.keywords) : ~IsRecognizedToken(call.ret.keywords[i])
    /\ call.args[1] = <<"f", "r", "o", "m", ":", "@", "a", "l", "i", "c", "e", " ",
                        "p", "r", "o", "j", "e", "c", "t">>
         => /\ call.ret.keywords = << <<"p", "r", "o", "j", "e", "c", "t">> >>
            /\ call.ret.filters = (<<"f", "r", "o", "m">> :> <<"a", "l", "i", "c", "e">>)
            /\ call.ret.isMultiWord = FALSE


\* ------------------------------------------------------------------------
\* The reducers of the query, the filters and the UI state
\* ------------------------------------------------------------------------
\* What the reducers of the query and the UI state leave alone
engine == <<cache, abortController, chats, users, maxResults, inv, nextId, now,
            failures, searchHistory, call>>

\* { ...entries, [key]: value }: a present key keeps its place
SetEntry(entries, key, value) ==
  IF \E i \in 1..Len(entries) : entries[i][1] = key
  THEN [i \in 1..Len(entries) |-> IF entries[i][1] = key THEN <<key, value>> ELSE entries[i]]
  ELSE Append(entries, <<key, value>>)

\* delete next[key]
DeleteEntry(entries, key) == SelectSeq(entries, LAMBDA e : e[1] # key)

\* Object.entries(...).map(([k, v]) => `${k}:${v}`).join(' ')
FilterStr(entries) ==
  JoinWith([i \in 1..Len(entries) |-> entries[i][1] \o <<":">> \o entries[i][2]], <<" ">>)

\* parseQuery(`${state.query} ${filterStr}`)
ParseWithFilters(q, entries) == parseQuery(q \o <<" ">> \o FilterStr(entries))

setQuery(payload) ==
  /\ query' = payload
  /\ parsedQuery' = parseQuery(payload)
  /\ highlightedIndex' = -1
  /\ UNCHANGED <<results, isLoading, error, resultsBy, activeFilters, activeCategory, engine>>

addFilter(key, value) ==
  /\ activeFilters' = SetEntry(activeFilters, key, value)
  /\ parsedQuery' = ParseWithFilters(query, SetEntry(SetEntry(activeFilters, key, value), key, value))
  /\ UNCHANGED <<results, isLoading, error, resultsBy, query, highlightedIndex,
                 activeCategory, engine>>

removeFilter(key) ==
  /\ activeFilters' = DeleteEntry(activeFilters, key)
  /\ parsedQuery' = ParseWithFilters(query, DeleteEntry(activeFilters, key))
  /\ UNCHANGED <<results, isLoading, error, resultsBy, query, highlightedIndex,
                 activeCategory, engine>>

clearFilters ==
  /\ activeFilters' = <<>>
  /\ parsedQuery' = parseQuery(query)
  /\ UNCHANGED <<results, isLoading, error, resultsBy, query, highlightedIndex,
                 activeCategory, engine>>

\* clearSearch: the list on display is nobody's any more
clearSearch ==
  /\ query' = <<>>
  /\ parsedQuery' = parseQuery(<<>>)
  /\ results' = <<>>
  /\ resultsBy' = 0
  /\ isLoading' = FALSE
  /\ error' = "null"
  /\ highlightedIndex' = -1
  /\ activeFilters' = <<>>
  /\ UNCHANGED <<activeCategory, engine>>

\* What the user types into the input
TypedTexts ==
  { <<>>,
    <<"a", "l", "i">>,
    <<"f", "r", "o", "m", ":", "b", "o", "b", " ", "a", "l", "i">>,
    <<"F", "R", "O", "M", ":", "a", "l", " ", "i", "n", "t", "o", ":", "x">> }

\* The keys and the values the filter widget passes to addFilter
FilterKeys == { <<"f", "r", "o", "m">>, <<"F", "R", "O", "M">>, <<"i", "n", "t", "o">> }
FilterValues == { <<"b", "o", "b">>, <<"@", "a", "l">> }

NextFilters ==
  \/ \E payload \in TypedTexts : setQuery(payload)
  \/ \E key \in FilterKeys, value \in FilterValues : addFilter(key, value)
  \/ \E key \in FilterKeys : removeFilter(key)
  \/ clearFilters
  \/ clearSearch

\* The reducers of the query and the filters, from initialState
SpecFilters == Init /\ [][NextFilters]_vars


\* C31: the store's parsedQuery is the parse of the raw query combined with
\* the active filters: every active filter with a key of the vocabulary is
\* in parsedQuery.filters with its value, and parsedQuery.keywords are the
\* keywords of the raw query.
C31_ParsedQueryFollowsQueryAndFilters ==
  /\ \A i \in 1..Len(activeFilters) :
       activeFilters[i][1] \in FILTER_TOKENS =>
         /\ activeFilters[i][1] \in DOMAIN parsedQuery.filters
         /\ parsedQuery.filters[activeFilters[i][1]] = activeFilters[i][2]
  /\ parsedQuery.keywords = parseQuery(query).keywords


\* C32: the keys of parsedQuery.filters are lowercase and belong to the
\* filter-token vocabulary, whatever text is typed and whatever keys are
\* passed to addFilter.
C32_FilterKeysInVocabulary ==
  \A k \in DOMAIN parsedQuery.filters : k \in FILTER_TOKENS /\ ToLowerCase(k) = k

\* Witness of C32: filters were added under an upper-case key and under a
\* key outside the vocabulary, and the parsed query holds the filter "from".
C32_Witness ==
  /\ \E i \in 1..Len(activeFilters) : activeFilters[i][1] = <<"F", "R", "O", "M">>
  /\ \E i \in 1..Len(activeFilters) : activeFilters[i][1] = <<"i", "n", "t", "o">>
  /\ DOMAIN parsedQuery.filters = {<<"f", "r", "o", "m">>}


\* ------------------------------------------------------------------------
\* The cache key
\* ------------------------------------------------------------------------
\* Two searches under one category, with and without a filter token
NextKey ==
  \/ \E q \in {"ali", "bobali"} : nextId < MaxInv /\ Dispatch(q, "users")
  \/ \E i \in Invocations, m \in ModuleApis : ResolveCall(i, m)
  \/ \E i \in Invocations, m \in ModuleApis : AbortCall(i, m)

SpecKey == Init /\ [][NextKey]_vars

\* C33: a cached list is returned only to an invocation whose parsed query
\* has the phrase and the filters of the invocation that stored it.
C33_CacheEntryNotSharedAcrossFilters ==
  [][IsCacheHit =>
       \A i \in Started :
         ( /\ inv[i].wroteCache
           /\ inv[i].cat = inv'[nextId].cat
           /\ inv[i].ret = results' )
         => ( /\ Queries[inv[i].q].phrase = Queries[inv'[nextId].q].phrase
              /\ Queries[inv[i].q].filters = Queries[inv'[nextId].q].filters )]_vars


\* ------------------------------------------------------------------------
\* The highlight, the category and the searches the hook triggers
\* ------------------------------------------------------------------------
\* selectFilteredResults: the results under the active category
selectFilteredResults(rs, cat) ==
  IF cat = "all" THEN rs ELSE SelectSeq(rs, LAMBDA r : r._module = cat)

\* Math.max(a, b), Math.min(a, b)
MathMax(a, b) == IF a >= b THEN a ELSE b
MathMin(a, b) == IF a <= b THEN a ELSE b

\* onMouseEnter of a displayed item dispatches setHighlightedIndex(index)
setHighlightedIndex(payload) ==
  /\ highlightedIndex' = payload
  /\ UNCHANGED <<results, isLoading, error, resultsBy, query, parsedQuery, activeFilters,
                 activeCategory, engine>>

moveHighlight(payload) ==
  /\ highlightedIndex' =
       MathMax(-1, MathMin(highlightedIndex + payload,
                           Len(selectFilteredResults(results, activeCategory)) - 1))
  /\ UNCHANGED <<results, isLoading, error, resultsBy, query, parsedQuery, activeFilters,
                 activeCategory, engine>>

setActiveCategory(payload) ==
  /\ activeCategory' = payload
  /\ highlightedIndex' = -1
  /\ UNCHANGED <<results, isLoading, error, resultsBy, query, parsedQuery, activeFilters,
                 engine>>

\* triggerSearch(fresh.parsedQuery, fresh.activeCategory) when the debounce
\* timer fires
TriggerSearch ==
  /\ ~parsedQuery.isEmpty
  /\ \E q \in KeywordQueries :
       /\ Queries[q].trimmed = parsedQuery.trimmed
       /\ Queries[q].filters = parsedQuery.filters
       /\ Dispatch(q, activeCategory)

NextUI ==
  \/ \E payload \in {<<>>, <<"a", "l">>, <<"a", "l", "i">>} : setQuery(payload)
  \/ nextId < MaxInv /\ TriggerSearch
  \/ \E c \in Categories : setActiveCategory(c)
  \/ \E index \in 0..(Len(selectFilteredResults(results, activeCategory)) - 1) :
        setHighlightedIndex(index)
  \/ \E dir \in {1, -1} : moveHighlight(dir)
  \/ clearSearch
  \/ \E i \in Invocations, m \in ModuleApis : ResolveCall(i, m)
  \/ \E i \in Invocations, m \in ModuleApis : AbortCall(i, m)

\* The store once the user has opened a tab
InitTab ==
  /\ results = <<>>
  /\ isLoading = FALSE
  /\ error = "null"
  /\ cache = <<>>
  /\ abortController = 0
  /\ chats = <<Item("c1"), Item("c2")>>
  /\ users = <<Item("u1"), Item("u2")>>
  /\ maxResults = 0
  /\ inv = [i \in Invocations |-> IdleInv]
  /\ nextId = 1
  /\ now = 0
  /\ resultsBy = 0
  /\ failures = 0
  /\ searchHistory = <<>>
  /\ call = NoCall
  /\ query = <<>>
  /\ parsedQuery = parseQuery(<<>>)
  /\ activeFilters = <<>>
  /\ highlightedIndex = -1
  /\ activeCategory \in Categories

\* The store under the hook: typing, hovering, arrow keys, tabs, clearing
\* and two searches
SpecUI == InitTab /\ [][NextUI]_vars

\* C34: once clearSearch has emptied the list, results stays empty and
\* isLoading stays false until a new invocation is dispatched.
C34_ClearedStaysCleared ==
  [][(resultsBy = 0 /\ results = <<>> /\ ~isLoading /\ ~IsDispatch)
       => (results' = <<>> /\ ~isLoading')]_vars


\* C39: highlightedIndex is -1 or an index into the results under the
\* active category, so that selectHighlightedResult never yields undefined.
C39_HighlightIsValidIndex ==
  \/ highlightedIndex = -1
  \/ /\ highlightedIndex >= 0
     /\ highlightedIndex < Len(selectFilteredResults(results, activeCategory))


\* ------------------------------------------------------------------------
\* The loading flag and the error across overlapping invocations
\* ------------------------------------------------------------------------
\* The invocation dispatched last
Latest == nextId - 1

\* No dispatched invocation is still running
NoneInFlight == \A i \in Started : inv[i].pc = "done"

\* C35: isLoading is true while the invocation dispatched last has not
\* completed, whatever older invocations complete meanwhile.
C35_LoadingWhileLatestInFlight ==
  (Latest >= 1 /\ inv[Latest].pc = "awaiting") => isLoading

\* C36: when the invocation dispatched last has fulfilled and no invocation
\* is in flight, error is null.
C36_NoErrorBesideLatestResults ==
  (Latest >= 1 /\ inv[Latest].outcome \in {"final", "cache"} /\ NoneInFlight)
    => error = "null"


\* ------------------------------------------------------------------------
\* The cancellation tokens
\* ------------------------------------------------------------------------
\* The invocation called getAbortSignal(): it was not served from the cache
HasToken(i) == i \in Started /\ inv[i].outcome # "cache"

\* The token of the invocation is not aborted
LiveToken(i) == HasToken(i) /\ ~inv[i].aborted

\* C38: at most one cancellation token is not aborted, it is the one
\* created last, and the remote calls pending under a token that is not
\* aborted all belong to one invocation.
C38_AtMostOneLiveToken ==
  /\ \A i, j \in Started : (LiveToken(i) /\ LiveToken(j)) => i = j
  /\ \A i \in Started : LiveToken(i) => abortController = i
  /\ \A i, j \in Started, m, n \in ModuleApis :
       ( /\ LiveToken(i) /\ inv[i].calls[m] = "pending"
         /\ LiveToken(j) /\ inv[j].calls[n] = "pending" ) => i = j

\* Witness of C38: two invocations created a token and both still await
\* remote calls; the token of the older one is aborted.
C38_Witness ==
  \E i, j \in Started :
    /\ i < j
    /\ inv[i].pc = "awaiting" /\ inv[i].aborted
    /\ \E m \in ModuleApis : inv[i].calls[m] = "pending"
    /\ inv[j].pc = "awaiting" /\ LiveToken(j)
    /\ \E n \in ModuleApis : inv[j].calls[n] = "pending"


\* ------------------------------------------------------------------------
\* Termination
\* ------------------------------------------------------------------------
\* A remote call settles: it resolves, fails or is rejected as aborted
SettleCall ==
  \E i \in Invocations, m \in ModuleApis :
    ResolveCall(i, m) \/ FailCall(i, m) \/ AbortCall(i, m)

\* A remote call is pending: SettleCall is enabled
CallPending ==
  \E i \in Invocations, m \in ModuleApis :
    inv[i].pc = "awaiting" /\ inv[i].calls[m] = "pending"

\* While remote calls are pending, one of them eventually settles: weak
\* fairness of SettleCall, with its enabling condition written out
CallsSettle == []<>(~CallPending) \/ []<><<SettleCall>>_vars

\* SpecCap with remote calls that settle
SpecLive == InitCap /\ [][NextCap]_vars /\ CallsSettle

\* C37: every dispatched invocation eventually terminates, fulfilled or
\* rejected, and isLoading is false whenever no invocation is in flight.
C37_InvocationsTerminate ==
  /\ \A i \in Invocations :
       (inv[i].pc = "awaiting") ~>
         (inv[i].pc = "done" /\ inv[i].outcome \in {"final", "rejected"})
  /\ [](NoneInFlight => ~isLoading)

\* Witness of C37: two invocations awaited remote calls, the older one under
\* an aborted signal, and both have terminated.
C37_Witness ==
  /\ nextId > 2
  /\ NoneInFlight
  /\ ~isLoading
  /\ \E i \in Started : inv[i].abortedAwaiting
  /\ \A i \in Started : inv[i].outcome \in {"final", "rejected"}

====
